---------------------------- MODULE Spec2Model ----------------------------
(***************************************************************************)
(* A model of devika's per-project persistence and run coordination:       *)
(*   - StateLog   : class AgentState      (src/src/state.py)               *)
(*   - MessageLog : class ProjectManager  (src/src/project.py)             *)
(*   - the request handlers send_message and execute_agent (src/devika.py) *)
(*                                                                         *)
(* Both logs live in one SQLite database.  Every method opens its own      *)
(* Session, SELECTs the first row of the project, changes the decoded      *)
(* list in memory and commits the re-encoded list.  The SELECT and the     *)
(* commit are the two atomic database steps of a method; between them      *)
(* another thread (Flask serves each request on its own thread, and each   *)
(* run is a Thread) may take its own steps.                                *)
(*                                                                         *)
(* Python values: None is the empty tuple and a value v of an optional     *)
(* field or an optional return is the one-element tuple <<v>>.             *)
(*                                                                         *)
(* Specifications: Spec (StateLog writers, interleaved), CoordSpec (the    *)
(* handlers and the writes around them, interleaved), SeqSpec (all calls,  *)
(* one at a time), StateSeqSpec and PartialSpec (StateLog writers, one at  *)
(* a time), MessageSeqSpec (MessageLog writers, one at a time), ReadSpec   *)
(* (the readers), RunSpec (the routes and the threads they start).         *)
(***************************************************************************)
EXTENDS Integers, Sequences, FiniteSets, TLC

VARIABLES
    agent_state,    \* table "agent_state": rows [id, project, json = state_stack_json]
    projects,       \* table "projects": rows [id, project, json = message_stack_json]
    task,           \* the calls made so far, one per task, with their progress
    threads,        \* the Agent threads the handlers have started, in order
    runs            \* the progress of each thread that has taken a step, by index

vars == <<agent_state, projects, task, threads, runs>>

---------------------------------------------------------------------------
(* Bounds of the model.                                                    *)

\* Number of calls (each on a task of its own) a behaviour makes.
NumTasks == 3

\* Largest token count the decoder of the model recognises.
MaxTokens == 20

Tasks == 1..NumTasks

---------------------------------------------------------------------------
(* Python values.                                                          *)

None == <<>>

Some(v) == <<v>>

\* Python truthiness of an optional bool:  `if x:`
Truthy(x) == x = Some(TRUE)

\* Python truthiness of an optional str:  `if not base_model`
TruthyStr(x) == x # None /\ x # Some("")

Min(S) == CHOOSE n \in S : \A m \in S : n <= m

Max(S) == CHOOSE n \in S : \A m \in S : n >= m

---------------------------------------------------------------------------
(* Inputs.                                                                 *)

ProjectNames == {"Demo", "Other"}

\* Readings of datetime.now().strftime("%Y-%m-%d %H:%M:%S")
Timestamps == {"2024-04-01 10:00:00", "2024-04-01 10:00:01"}

Texts == {"hello", "hi there"}

Monologues == {"Browsing the web right now...", "thinking"}

BaseModels == {None, Some(""), Some("gpt-4")}

\* os.path.join of a directory and a relative name
os_path_join(a, b) == a \o "/" \o b

\* Config().get_screenshots_dir(), the pages the browser is on and the
\* names os.urandom(20).hex() + ".png" yields
ScreenshotsDir == "data/screenshots"

PageUrls == {"https://example.com", "https://example.org/docs"}

ScreenshotFiles == {"0f3a.png"}

\* Every str the model stores, for the decoder.
Strings ==
    Timestamps \cup Texts \cup Monologues \cup {"https://example.com", "shot.png"}
        \cup PageUrls \cup {os_path_join(ScreenshotsDir, f) : f \in ScreenshotFiles}

---------------------------------------------------------------------------
(* json.dumps / json.loads, by the shape of the two stacks.  A JSON scalar *)
(* is its text: null, true, false, a numeral, or a quoted string.          *)

Quote(s) == "\"" \o s \o "\""

dumps_str(s) == Quote(s)

loads_str(j) == CHOOSE s \in Strings : Quote(s) = j

dumps_opt(x) == IF x = None THEN "null" ELSE Quote(x[1])

loads_opt(j) == IF j = "null" THEN None ELSE Some(loads_str(j))

dumps_bool(b) == IF b THEN "true" ELSE "false"

loads_bool(j) == j = "true"

dumps_int(n) == ToString(n)

loads_int(j) == CHOOSE n \in 0..MaxTokens : ToString(n) = j

\* A snapshot is a dict: json encodes the keys it has, each value by the
\* type the snapshot schema gives that key.
dumps_field(k, v) ==
    CASE k = "browser_session"  -> [ url        |-> dumps_opt(v.url),
                                     screenshot |-> dumps_opt(v.screenshot) ]
      [] k = "terminal_session" -> [ command |-> dumps_opt(v.command),
                                     output  |-> dumps_opt(v.output),
                                     title   |-> dumps_opt(v.title) ]
      [] k \in {"completed", "agent_is_active"} -> dumps_bool(v)
      [] k = "token_usage"      -> dumps_int(v)
      [] k = "timestamp"        -> dumps_str(v)
      [] OTHER                  -> dumps_opt(v)

loads_field(k, j) ==
    CASE k = "browser_session"  -> [ url        |-> loads_opt(j.url),
                                     screenshot |-> loads_opt(j.screenshot) ]
      [] k = "terminal_session" -> [ command |-> loads_opt(j.command),
                                     output  |-> loads_opt(j.output),
                                     title   |-> loads_opt(j.title) ]
      [] k \in {"completed", "agent_is_active"} -> loads_bool(j)
      [] k = "token_usage"      -> loads_int(j)
      [] k = "timestamp"        -> loads_str(j)
      [] OTHER                  -> loads_opt(j)

dumps_state(s) == [k \in DOMAIN s |-> dumps_field(k, s[k])]

loads_state(j) == [k \in DOMAIN j |-> loads_field(k, j[k])]

\* json.dumps(state_stack) and json.loads(agent_state.state_stack_json)
dumps_state_stack(stack) == [i \in 1..Len(stack) |-> dumps_state(stack[i])]

loads_state_stack(j) == [i \in 1..Len(j) |-> loads_state(j[i])]

dumps_message(m) ==
    [ from_devika |-> dumps_bool(m.from_devika),
      message     |-> dumps_opt(m.message),
      timestamp   |-> dumps_str(m.timestamp) ]

loads_message(j) ==
    [ from_devika |-> loads_bool(j.from_devika),
      message     |-> loads_opt(j.message),
      timestamp   |-> loads_str(j.timestamp) ]

\* json.dumps(message_stack) and json.loads(project_state.message_stack_json)
dumps_message_stack(stack) == [i \in 1..Len(stack) |-> dumps_message(stack[i])]

loads_message_stack(j) == [i \in 1..Len(j) |-> loads_message(j[i])]

---------------------------------------------------------------------------
(* The database session.  A method's SELECT yields the first row of the    *)
(* project in rowid order; what it then hands to session.commit() is one   *)
(* pending write.                                                          *)

\* A faulty variant: the first row of the table, whatever its project.
query_first_unfiltered(table, project) ==
    IF table = <<>> THEN None ELSE Some(table[1])

\* session.query(Model).filter(Model.project == project).first()
query_first(table, project) ==
    LET hits == {i \in DOMAIN table : table[i].project = project}
    IN  IF hits = {} THEN None ELSE Some(table[Min(hits)])

NoWrite == [kind |-> "none"]

\* row.<stack>_json = json  on a row the session loaded
Update(row, json) == [kind |-> "update", id |-> row.id, loaded |-> row.json, json |-> json]

\* session.add(Model(project=project, <stack>_json=json))
Insert(project, json) == [kind |-> "insert", project |-> project, json |-> json]

\* session.delete(row) on a row the session loaded
Delete(row) == [kind |-> "delete", id |-> row.id]

\* an exception left the method before session.commit()
Raise(error) == [kind |-> "raise", error |-> error]

\* id: Optional[int] = Field(default=None, primary_key=True): the next rowid
next_id(table) == IF table = <<>> THEN 1 ELSE Max({table[i].id : i \in DOMAIN table}) + 1

\* A faulty variant: an UPDATE that applies only to a row still holding the
\* value that was loaded (optimistic locking, which the code does not do).
commit_if_unchanged(table, write) ==
    CASE write.kind = "insert" ->
            Append(table, [id |-> next_id(table), project |-> write.project, json |-> write.json])
      [] write.kind = "update" /\ write.json # write.loaded ->
            [i \in DOMAIN table |->
                IF table[i].id = write.id /\ table[i].json = write.loaded
                THEN [table[i] EXCEPT !.json = write.json]
                ELSE table[i]]
      [] OTHER -> table

\* session.commit(): the unit of work emits its UPDATE (only for a column
\* whose value differs from the loaded one, and by primary key), its INSERT
\* or its DELETE (by primary key).
commit(table, write) ==
    CASE write.kind = "insert" ->
            Append(table, [id |-> next_id(table), project |-> write.project, json |-> write.json])
      [] write.kind = "update" /\ write.json # write.loaded ->
            [i \in DOMAIN table |->
                IF table[i].id = write.id THEN [table[i] EXCEPT !.json = write.json]
                ELSE table[i]]
      [] write.kind = "delete" ->
            SelectSeq(table, LAMBDA row : row.id # write.id)
      [] OTHER -> table

---------------------------------------------------------------------------
(* StateLog: class AgentState.  Each writer is given as the pending write  *)
(* its SELECT and in-memory change lead to; `table` is agent_state as the  *)
(* SELECT sees it.                                                         *)

\* a return value v is <<v>>, None is <<>>, an escaping exception is this
Raised(error) == <<"raise", error>>

\* A faulty variant: a fresh snapshot that is not active.
new_state_inactive(timestamp) ==
    [ internal_monologue |-> None,
      browser_session    |-> [url |-> None, screenshot |-> None],
      terminal_session   |-> [command |-> None, output |-> None, title |-> None],
      step               |-> None,
      message            |-> None,
      completed          |-> FALSE,
      agent_is_active    |-> FALSE,
      token_usage        |-> 0,
      timestamp          |-> timestamp ]

new_state(timestamp) ==
    [ internal_monologue |-> None,
      browser_session    |-> [url |-> None, screenshot |-> None],
      terminal_session   |-> [command |-> None, output |-> None, title |-> None],
      step               |-> None,
      message            |-> None,
      completed          |-> FALSE,
      agent_is_active    |-> TRUE,
      token_usage        |-> 0,
      timestamp          |-> timestamp ]

\* A faulty variant: overwrites the latest snapshot instead of appending.
add_to_current_state_replacing(table, project, state) ==
    LET found == query_first(table, project)
    IN  IF found # None
        THEN LET state_stack == loads_state_stack(found[1].json)
             IN  Update(found[1],
                    dumps_state_stack([state_stack EXCEPT ![Len(state_stack)] = state]))
        ELSE Insert(project, dumps_state_stack(<<state>>))

\* A faulty variant: the new snapshot takes over the usage counted so far.
add_to_current_state_carrying(table, project, state) ==
    LET found == query_first(table, project)
    IN  IF found # None
        THEN LET state_stack == loads_state_stack(found[1].json)
                 carried == [state EXCEPT
                                !.token_usage = @ + state_stack[Len(state_stack)].token_usage]
             IN  Update(found[1], dumps_state_stack(Append(state_stack, carried)))
        ELSE Insert(project, dumps_state_stack(<<state>>))

add_to_current_state(table, project, state) ==
    LET found == query_first(table, project)
    IN  IF found # None
        THEN LET state_stack == loads_state_stack(found[1].json)
             IN  Update(found[1], dumps_state_stack(Append(state_stack, state)))
        ELSE Insert(project, dumps_state_stack(<<state>>))

\* A faulty variant: appends instead of overwriting the latest snapshot.
update_latest_state_appending(table, project, state) ==
    LET found == query_first(table, project)
    IN  IF found # None
        THEN LET state_stack == loads_state_stack(found[1].json)
             IN  Update(found[1], dumps_state_stack(Append(state_stack, state)))
        ELSE Insert(project, dumps_state_stack(<<state>>))

\* A faulty variant: on a project without a log, fills the keys the dict
\* lacks from a fresh new_state().
update_latest_state_defaulting(table, project, state) ==
    LET found == query_first(table, project)
        fresh == new_state("2024-04-01 10:00:00")
    IN  IF found # None
        THEN LET state_stack == loads_state_stack(found[1].json)
             IN  IF state_stack = <<>> THEN Raise("IndexError")
                 ELSE Update(found[1],
                        dumps_state_stack([state_stack EXCEPT ![Len(state_stack)] = state]))
        ELSE Insert(project,
                dumps_state_stack(<<[k \in DOMAIN fresh \cup DOMAIN state |->
                                        IF k \in DOMAIN state THEN state[k] ELSE fresh[k]]>>))

\* A faulty variant: a project without a row is given an empty stack.
update_latest_state_emptying(table, project, state) ==
    LET found == query_first(table, project)
    IN  IF found # None
        THEN LET state_stack == loads_state_stack(found[1].json)
             IN  IF state_stack = <<>> THEN Raise("IndexError")
                 ELSE Update(found[1],
                        dumps_state_stack([state_stack EXCEPT ![Len(state_stack)] = state]))
        ELSE Insert(project, dumps_state_stack(<<>>))

update_latest_state(table, project, state) ==
    LET found == query_first(table, project)
    IN  IF found # None
        THEN LET state_stack == loads_state_stack(found[1].json)
             IN  IF state_stack = <<>> THEN Raise("IndexError")
                 ELSE Update(found[1],
                        dumps_state_stack([state_stack EXCEPT ![Len(state_stack)] = state]))
        ELSE Insert(project, dumps_state_stack(<<state>>))

set_agent_active(table, project, is_active, timestamp) ==
    LET found == query_first(table, project)
    IN  IF found # None
        THEN LET state_stack == loads_state_stack(found[1].json)
             IN  IF state_stack = <<>> THEN Raise("IndexError")
                 ELSE Update(found[1],
                        dumps_state_stack([state_stack EXCEPT
                            ![Len(state_stack)].agent_is_active = is_active]))
        ELSE Insert(project,
                dumps_state_stack(<<[new_state(timestamp) EXCEPT !.agent_is_active = is_active]>>))

\* A faulty variant: also clears agent_is_active on an existing log.
set_agent_completed_deactivating(table, project, is_completed, timestamp) ==
    LET found == query_first(table, project)
    IN  IF found # None
        THEN LET state_stack == loads_state_stack(found[1].json)
             IN  IF state_stack = <<>> THEN Raise("IndexError")
                 ELSE Update(found[1],
                        dumps_state_stack([state_stack EXCEPT
                            ![Len(state_stack)].completed = is_completed,
                            ![Len(state_stack)].agent_is_active = FALSE]))
        ELSE Insert(project,
                dumps_state_stack(<<[new_state(timestamp) EXCEPT !.completed = is_completed]>>))

set_agent_completed(table, project, is_completed, timestamp) ==
    LET found == query_first(table, project)
    IN  IF found # None
        THEN LET state_stack == loads_state_stack(found[1].json)
             IN  IF state_stack = <<>> THEN Raise("IndexError")
                 ELSE Update(found[1],
                        dumps_state_stack([state_stack EXCEPT
                            ![Len(state_stack)].completed = is_completed]))
        ELSE Insert(project,
                dumps_state_stack(<<[new_state(timestamp) EXCEPT !.completed = is_completed]>>))

\* A faulty variant: `=` for `+=` on an existing log.
update_token_usage_overwriting(table, project, token_usage, timestamp) ==
    LET found == query_first(table, project)
    IN  IF found # None
        THEN LET state_stack == loads_state_stack(found[1].json)
             IN  IF state_stack = <<>> THEN Raise("IndexError")
                 ELSE Update(found[1],
                        dumps_state_stack([state_stack EXCEPT
                            ![Len(state_stack)].token_usage = token_usage]))
        ELSE Insert(project,
                dumps_state_stack(<<[new_state(timestamp) EXCEPT !.token_usage = token_usage]>>))

update_token_usage(table, project, token_usage, timestamp) ==
    LET found == query_first(table, project)
    IN  IF found # None
        THEN LET state_stack == loads_state_stack(found[1].json)
             IN  IF state_stack = <<>> THEN Raise("IndexError")
                 ELSE Update(found[1],
                        dumps_state_stack([state_stack EXCEPT
                            ![Len(state_stack)].token_usage = @ + token_usage]))
        ELSE Insert(project,
                dumps_state_stack(<<[new_state(timestamp) EXCEPT !.token_usage = token_usage]>>))

get_current_state(table, project) ==
    LET found == query_first(table, project)
    IN  IF found # None THEN Some(loads_state_stack(found[1].json)) ELSE None

\* A faulty variant: returns the oldest snapshot, state_stack[0].
get_latest_state_oldest(table, project) ==
    LET found == query_first(table, project)
    IN  IF found # None
        THEN LET state_stack == loads_state_stack(found[1].json)
             IN  IF state_stack = <<>> THEN Raised("IndexError")
                 ELSE Some(state_stack[1])
        ELSE None

get_latest_state(table, project) ==
    LET found == query_first(table, project)
    IN  IF found # None
        THEN LET state_stack == loads_state_stack(found[1].json)
             IN  IF state_stack = <<>> THEN Raised("IndexError")
                 ELSE Some(state_stack[Len(state_stack)])
        ELSE None

is_agent_active(table, project) ==
    LET found == query_first(table, project)
    IN  IF found # None
        THEN LET state_stack == loads_state_stack(found[1].json)
             IN  IF state_stack = <<>> THEN Raised("IndexError")
                 ELSE Some(state_stack[Len(state_stack)].agent_is_active)
        ELSE None

is_agent_completed(table, project) ==
    LET found == query_first(table, project)
    IN  IF found # None
        THEN LET state_stack == loads_state_stack(found[1].json)
             IN  IF state_stack = <<>> THEN Raised("IndexError")
                 ELSE Some(state_stack[Len(state_stack)].completed)
        ELSE None

\* A faulty variant: None, not 0, for a project without a row.
get_latest_token_usage_or_none(table, project) ==
    LET found == query_first(table, project)
    IN  IF found # None
        THEN LET state_stack == loads_state_stack(found[1].json)
             IN  IF state_stack = <<>> THEN Raised("IndexError")
                 ELSE Some(state_stack[Len(state_stack)].token_usage)
        ELSE None

get_latest_token_usage(table, project) ==
    LET found == query_first(table, project)
    IN  IF found # None
        THEN LET state_stack == loads_state_stack(found[1].json)
             IN  IF state_stack = <<>> THEN Raised("IndexError")
                 ELSE Some(state_stack[Len(state_stack)].token_usage)
        ELSE Some(0)

---------------------------------------------------------------------------
(* MessageLog: class ProjectManager; `table` is projects.                  *)

new_message(timestamp) ==
    [from_devika |-> TRUE, message |-> None, timestamp |-> timestamp]

create_project(table, project) ==
    Insert(project, dumps_message_stack(<<>>))

\* A faulty variant: puts the message at the head of the stack.
add_message_to_project_prepending(table, project, message) ==
    LET found == query_first(table, project)
    IN  IF found # None
        THEN LET message_stack == loads_message_stack(found[1].json)
             IN  Update(found[1], dumps_message_stack(<<message>> \o message_stack))
        ELSE Insert(project, dumps_message_stack(<<message>>))

add_message_to_project(table, project, message) ==
    LET found == query_first(table, project)
    IN  IF found # None
        THEN LET message_stack == loads_message_stack(found[1].json)
             IN  Update(found[1], dumps_message_stack(Append(message_stack, message)))
        ELSE Insert(project, dumps_message_stack(<<message>>))

add_message_from_devika(table, project, message, timestamp) ==
    add_message_to_project(table, project,
        [new_message(timestamp) EXCEPT !.message = message])

add_message_from_user(table, project, message, timestamp) ==
    add_message_to_project(table, project,
        [new_message(timestamp) EXCEPT !.message = message, !.from_devika = FALSE])

\* A faulty variant: an empty list for a project without a row.
get_messages_or_empty(table, project) ==
    LET found == query_first(table, project)
    IN  IF found # None THEN Some(loads_message_stack(found[1].json)) ELSE Some(<<>>)

get_messages(table, project) ==
    LET found == query_first(table, project)
    IN  IF found # None THEN Some(loads_message_stack(found[1].json)) ELSE None

RECURSIVE reversed_first(_, _)
\* for message in reversed(message_stack): the first message whose
\* from_devika is `from_devika`, or None when the loop finds none.
reversed_first(message_stack, from_devika) ==
    IF message_stack = <<>> THEN None
    ELSE IF message_stack[Len(message_stack)].from_devika = from_devika
         THEN Some(message_stack[Len(message_stack)])
         ELSE reversed_first(SubSeq(message_stack, 1, Len(message_stack) - 1), from_devika)

RECURSIVE forward_first(_, _)
\* The same loop without reversed().
forward_first(message_stack, from_devika) ==
    IF message_stack = <<>> THEN None
    ELSE IF message_stack[1].from_devika = from_devika
         THEN Some(message_stack[1])
         ELSE forward_first(Tail(message_stack), from_devika)

\* A faulty variant: scans the stack from its head.
get_latest_message_from_user_oldest(table, project) ==
    LET found == query_first(table, project)
    IN  IF found # None
        THEN forward_first(loads_message_stack(found[1].json), FALSE)
        ELSE None

get_latest_message_from_user(table, project) ==
    LET found == query_first(table, project)
    IN  IF found # None
        THEN reversed_first(loads_message_stack(found[1].json), FALSE)
        ELSE None

get_latest_message_from_devika(table, project) ==
    LET found == query_first(table, project)
    IN  IF found # None
        THEN reversed_first(loads_message_stack(found[1].json), TRUE)
        ELSE None

\* get_project_list: the project column of every row, in rowid order
get_project_list(table) == [i \in 1..Len(table) |-> table[i].project]

\* A faulty variant: indexes the stack without the `if message_stack` test.
validate_last_message_unguarded(table, project) ==
    LET found == query_first(table, project)
    IN  IF found # None
        THEN LET message_stack == loads_message_stack(found[1].json)
             IN  IF message_stack = <<>> THEN Raised("IndexError")
                 ELSE Some(~message_stack[Len(message_stack)].from_devika)
        ELSE Some(FALSE)

validate_last_message_is_from_user(table, project) ==
    LET found == query_first(table, project)
    IN  IF found # None
        THEN LET message_stack == loads_message_stack(found[1].json)
             IN  IF message_stack # <<>>
                 THEN Some(~message_stack[Len(message_stack)].from_devika)
                 ELSE Some(FALSE)
        ELSE Some(FALSE)

---------------------------------------------------------------------------
(* Calls.  A call is made by one task: a request thread of the Flask app   *)
(* or an Agent thread using the two managers.  Tasks start in the order of *)
(* their numbers (they are interchangeable, so nothing is lost), and the   *)
(* clock a call reads does not run backwards: the first two calls fall in  *)
(* the same second, the later ones in the next.                            *)

Clock(t) == IF t <= 2 THEN "2024-04-01 10:00:00" ELSE "2024-04-01 10:00:01"

StateInputs ==
    { [new_state("2024-04-01 10:00:00") EXCEPT
            !.internal_monologue = Some("thinking"), !.token_usage = 3],
      [new_state("2024-04-01 10:00:01") EXCEPT
            !.message = Some("hi there"), !.completed = TRUE, !.agent_is_active = FALSE] }

TokenAmounts == {2, 5}

AddToCurrentStateCalls(P) ==
    {[op |-> "add_to_current_state", project |-> p, state |-> s] : p \in P, s \in StateInputs}

UpdateLatestStateCalls(P) ==
    {[op |-> "update_latest_state", project |-> p, state |-> s] : p \in P, s \in StateInputs}

\* Dicts that hold only the keys their caller wants to set.
PartialStates ==
    { [completed |-> TRUE],
      [message |-> Some("hi there"), token_usage |-> 5] }

UpdateLatestStatePartialCalls(P) ==
    {[op |-> "update_latest_state", project |-> p, state |-> s] : p \in P, s \in PartialStates}

SetAgentActiveCalls(P, t) ==
    {[op |-> "set_agent_active", project |-> p, is_active |-> b, timestamp |-> Clock(t)] :
        p \in P, b \in BOOLEAN}

SetAgentCompletedCalls(P, t) ==
    {[op |-> "set_agent_completed", project |-> p, is_completed |-> b, timestamp |-> Clock(t)] :
        p \in P, b \in BOOLEAN}

UpdateTokenUsageCalls(P, t) ==
    {[op |-> "update_token_usage", project |-> p, token_usage |-> k, timestamp |-> Clock(t)] :
        p \in P, k \in TokenAmounts}

CreateProjectCalls(P) ==
    {[op |-> "create_project", project |-> p] : p \in P}

AddMessageFromUserCalls(P, t) ==
    {[op |-> "add_message_from_user", project |-> p, message |-> Some(m),
      timestamp |-> Clock(t)] : p \in P, m \in Texts}

AddMessageFromDevikaCalls(P, t) ==
    {[op |-> "add_message_from_devika", project |-> p, message |-> Some(m),
      timestamp |-> Clock(t)] : p \in P, m \in Texts}

SendMessageCalls(P, t) ==
    {[op |-> "send_message", project |-> p, message |-> Some("hello"), base_model |-> b,
      timestamp |-> Clock(t)] : p \in P, b \in BaseModels}

ExecuteAgentCalls(P) ==
    {[op |-> "execute_agent", project |-> p, prompt |-> Some("hello"), base_model |-> b] :
        p \in P, b \in BaseModels}

StateOps == {"add_to_current_state", "update_latest_state", "set_agent_active",
             "set_agent_completed", "update_token_usage"}

MessageOps == {"add_message_from_user", "add_message_from_devika"}

\* The write a StateLog call prepares when its SELECT sees `table`.
StateWrite(table, c) ==
    CASE c.op = "add_to_current_state" -> add_to_current_state(table, c.project, c.state)
      [] c.op = "update_latest_state"  -> update_latest_state(table, c.project, c.state)
      [] c.op = "set_agent_active"     ->
            set_agent_active(table, c.project, c.is_active, c.timestamp)
      [] c.op = "set_agent_completed"  ->
            set_agent_completed(table, c.project, c.is_completed, c.timestamp)
      [] c.op = "update_token_usage"   ->
            update_token_usage(table, c.project, c.token_usage, c.timestamp)

\* The write a MessageLog call prepares when its SELECT sees `table`.
MessageWrite(table, c) ==
    CASE c.op = "add_message_from_user"   ->
            add_message_from_user(table, c.project, c.message, c.timestamp)
      [] c.op = "add_message_from_devika" ->
            add_message_from_devika(table, c.project, c.message, c.timestamp)

\* A faulty variant: leaves new_message()'s from_devika = True in place.
user_message_from_devika(c) ==
    [new_message(c.timestamp) EXCEPT !.message = c.message]

\* devika.py send_message, lines 168-170: the user message it appends
user_message(c) ==
    [new_message(c.timestamp) EXCEPT !.message = c.message, !.from_devika = FALSE]

\* send_message, line 171
send_message_write(table, c) == add_message_to_project(table, c.project, user_message(c))

\* Thread(target=lambda: Agent(base_model=...).subsequent_execute(message, project_name))
resume_thread(c) ==
    [target |-> "subsequent_execute", base_model |-> c.base_model,
     arg |-> c.message, project |-> c.project]

\* Thread(target=lambda: Agent(base_model=...).execute(prompt, project_name))
execute_thread(c) ==
    [target |-> "execute", base_model |-> c.base_model,
     arg |-> c.prompt, project |-> c.project]

\* A faulty variant: `is not None` for the truth test of the flag.
send_message_launch_unless_none(ths, c, completed) ==
    IF completed # None THEN Append(ths, resume_thread(c)) ELSE ths

\* A faulty variant: no second thread for a project that has one.
send_message_launch_once(ths, c, completed) ==
    IF Truthy(completed) /\ ~(\E i \in DOMAIN ths : ths[i].project = c.project)
    THEN Append(ths, resume_thread(c))
    ELSE ths

\* send_message, lines 173-177: the threads once the completed flag was read
send_message_launch(ths, c, completed) ==
    IF Truthy(completed) THEN Append(ths, resume_thread(c)) ELSE ths

\* A faulty variant: refuses a project that already has a thread.
execute_agent_launch_once(ths, c) ==
    IF ~TruthyStr(c.base_model) \/ (\E i \in DOMAIN ths : ths[i].project = c.project)
    THEN ths
    ELSE Append(ths, execute_thread(c))

\* execute_agent, lines 64-70
execute_agent_launch(ths, c) ==
    IF ~TruthyStr(c.base_model) THEN ths ELSE Append(ths, execute_thread(c))

---------------------------------------------------------------------------
(* Tasks.  Task t makes one call.                                          *)

IdleTask == [pc |-> "idle", call |-> [op |-> "none"], pending |-> NoWrite, ret |-> None]

CanStart(t) == task[t].pc = "idle" /\ (IF t = 1 THEN TRUE ELSE task[t - 1].pc # "idle")

At(t, pc, c, write, ret) ==
    task' = [task EXCEPT ![t] = [pc |-> pc, call |-> c, pending |-> write, ret |-> ret]]

\* A thread that has not taken a step yet.
LaunchedRun == [pc |-> "launched", pending |-> NoWrite]

Init ==
    /\ agent_state = <<>>
    /\ projects = <<>>
    /\ task = [t \in Tasks |-> IdleTask]
    /\ threads = <<>>
    /\ runs = [i \in Tasks |-> LaunchedRun]

---------------------------------------------------------------------------
(* Spec: StateLog writers run concurrently on one project, one database    *)
(* step (the SELECT, the commit) at a time.                                *)

SharedProject == {"Demo"}

AddToCurrentState(t) ==
    /\ CanStart(t)
    /\ \E c \in AddToCurrentStateCalls(SharedProject) :
        At(t, "commit", c, StateWrite(agent_state, c), None)
    /\ UNCHANGED <<agent_state, projects, threads, runs>>

UpdateLatestState(t) ==
    /\ CanStart(t)
    /\ \E c \in UpdateLatestStateCalls(SharedProject) :
        At(t, "commit", c, StateWrite(agent_state, c), None)
    /\ UNCHANGED <<agent_state, projects, threads, runs>>

SetAgentActive(t) ==
    /\ CanStart(t)
    /\ \E c \in SetAgentActiveCalls(SharedProject, t) :
        At(t, "commit", c, StateWrite(agent_state, c), None)
    /\ UNCHANGED <<agent_state, projects, threads, runs>>

SetAgentCompleted(t) ==
    /\ CanStart(t)
    /\ \E c \in SetAgentCompletedCalls(SharedProject, t) :
        At(t, "commit", c, StateWrite(agent_state, c), None)
    /\ UNCHANGED <<agent_state, projects, threads, runs>>

UpdateTokenUsage(t) ==
    /\ CanStart(t)
    /\ \E c \in UpdateTokenUsageCalls(SharedProject, t) :
        At(t, "commit", c, StateWrite(agent_state, c), None)
    /\ UNCHANGED <<agent_state, projects, threads, runs>>

\* session.commit() of a StateLog writer
CommitState(t) ==
    /\ task[t].pc = "commit"
    /\ task[t].call.op \in StateOps
    /\ agent_state' = commit(agent_state, task[t].pending)
    /\ At(t, "done", task[t].call, task[t].pending, None)
    /\ UNCHANGED <<projects, threads, runs>>

Next ==
    \E t \in Tasks :
        \/ AddToCurrentState(t)
        \/ UpdateLatestState(t)
        \/ SetAgentActive(t)
        \/ SetAgentCompleted(t)
        \/ UpdateTokenUsage(t)
        \/ CommitState(t)

Spec == Init /\ [][Next]_vars

---------------------------------------------------------------------------
(* CoordSpec: the request handlers of devika.py run concurrently with each *)
(* other, with MessageLog appends and with set_agent_completed (the write  *)
(* a run makes when it starts and when it ends), on one project.           *)

\* create_project has no SELECT: session.add and session.commit
CreateProject(t) ==
    /\ CanStart(t)
    /\ \E c \in CreateProjectCalls(SharedProject) :
        LET write == create_project(projects, c.project)
        IN  /\ projects' = commit(projects, write)
            /\ At(t, "done", c, write, None)
    /\ UNCHANGED <<agent_state, threads, runs>>

AddMessageFromUser(t) ==
    /\ CanStart(t)
    /\ \E c \in AddMessageFromUserCalls(SharedProject, t) :
        At(t, "commit", c, MessageWrite(projects, c), None)
    /\ UNCHANGED <<agent_state, projects, threads, runs>>

AddMessageFromDevika(t) ==
    /\ CanStart(t)
    /\ \E c \in AddMessageFromDevikaCalls(SharedProject, t) :
        At(t, "commit", c, MessageWrite(projects, c), None)
    /\ UNCHANGED <<agent_state, projects, threads, runs>>

\* session.commit() of add_message_to_project
CommitMessage(t) ==
    /\ task[t].pc = "commit"
    /\ task[t].call.op \in MessageOps
    /\ projects' = commit(projects, task[t].pending)
    /\ At(t, "done", task[t].call, task[t].pending, None)
    /\ UNCHANGED <<agent_state, threads, runs>>

\* send_message, lines 163-171 up to the SELECT of add_message_to_project
SendMessage(t) ==
    /\ CanStart(t)
    /\ \E c \in SendMessageCalls(SharedProject, t) :
        At(t, "commit", c, send_message_write(projects, c), None)
    /\ UNCHANGED <<agent_state, projects, threads, runs>>

\* send_message, line 171: session.commit() of add_message_to_project
SendMessageCommit(t) ==
    /\ task[t].pc = "commit"
    /\ task[t].call.op = "send_message"
    /\ projects' = commit(projects, task[t].pending)
    /\ At(t, "check", task[t].call, task[t].pending, None)
    /\ UNCHANGED <<agent_state, threads, runs>>

\* send_message, lines 173-179: read the flag, start the thread, return
SendMessageCheck(t) ==
    /\ task[t].pc = "check"
    /\ LET completed == is_agent_completed(agent_state, task[t].call.project)
       IN  /\ threads' = send_message_launch(threads, task[t].call, completed)
           /\ At(t, "done", task[t].call, task[t].pending, completed)
    /\ UNCHANGED <<agent_state, projects, runs>>

\* execute_agent, lines 59-72
ExecuteAgent(t) ==
    /\ CanStart(t)
    /\ \E c \in ExecuteAgentCalls(SharedProject) :
        /\ threads' = execute_agent_launch(threads, c)
        /\ At(t, "done", c, NoWrite, None)
    /\ UNCHANGED <<agent_state, projects, runs>>

CoordNext ==
    \E t \in Tasks :
        \/ SendMessage(t)
        \/ SendMessageCommit(t)
        \/ SendMessageCheck(t)
        \/ ExecuteAgent(t)
        \/ SetAgentCompleted(t)
        \/ CommitState(t)
        \/ CreateProject(t)
        \/ AddMessageFromDevika(t)
        \/ CommitMessage(t)

CoordSpec == Init /\ [][CoordNext]_vars

---------------------------------------------------------------------------
(* SeqSpec: the calls run one after the other, each from its SELECT to its *)
(* commit without another call in between, on two projects.  send_message  *)
(* keeps its three steps, so that the order of its own writes and reads    *)
(* shows.                                                                  *)

CanStartAlone(t) ==
    task[t].pc = "idle" /\ (IF t = 1 THEN TRUE ELSE task[t - 1].pc = "done")

AddToCurrentStateCall(t) ==
    /\ CanStartAlone(t)
    /\ \E c \in AddToCurrentStateCalls(ProjectNames) :
        LET write == StateWrite(agent_state, c)
        IN  /\ agent_state' = commit(agent_state, write)
            /\ At(t, "done", c, write, None)
    /\ UNCHANGED <<projects, threads, runs>>

UpdateLatestStateCall(t) ==
    /\ CanStartAlone(t)
    /\ \E c \in UpdateLatestStateCalls(ProjectNames) :
        LET write == StateWrite(agent_state, c)
        IN  /\ agent_state' = commit(agent_state, write)
            /\ At(t, "done", c, write, None)
    /\ UNCHANGED <<projects, threads, runs>>

SetAgentActiveCall(t) ==
    /\ CanStartAlone(t)
    /\ \E c \in SetAgentActiveCalls(ProjectNames, t) :
        LET write == StateWrite(agent_state, c)
        IN  /\ agent_state' = commit(agent_state, write)
            /\ At(t, "done", c, write, None)
    /\ UNCHANGED <<projects, threads, runs>>

SetAgentCompletedCall(t) ==
    /\ CanStartAlone(t)
    /\ \E c \in SetAgentCompletedCalls(ProjectNames, t) :
        LET write == StateWrite(agent_state, c)
        IN  /\ agent_state' = commit(agent_state, write)
            /\ At(t, "done", c, write, None)
    /\ UNCHANGED <<projects, threads, runs>>

UpdateTokenUsageCall(t) ==
    /\ CanStartAlone(t)
    /\ \E c \in UpdateTokenUsageCalls(ProjectNames, t) :
        LET write == StateWrite(agent_state, c)
        IN  /\ agent_state' = commit(agent_state, write)
            /\ At(t, "done", c, write, None)
    /\ UNCHANGED <<projects, threads, runs>>

CreateProjectCall(t) ==
    /\ CanStartAlone(t)
    /\ \E c \in CreateProjectCalls(ProjectNames) :
        LET write == create_project(projects, c.project)
        IN  /\ projects' = commit(projects, write)
            /\ At(t, "done", c, write, None)
    /\ UNCHANGED <<agent_state, threads, runs>>

AddMessageFromUserCall(t) ==
    /\ CanStartAlone(t)
    /\ \E c \in AddMessageFromUserCalls(ProjectNames, t) :
        LET write == MessageWrite(projects, c)
        IN  /\ projects' = commit(projects, write)
            /\ At(t, "done", c, write, None)
    /\ UNCHANGED <<agent_state, threads, runs>>

AddMessageFromDevikaCall(t) ==
    /\ CanStartAlone(t)
    /\ \E c \in AddMessageFromDevikaCalls(ProjectNames, t) :
        LET write == MessageWrite(projects, c)
        IN  /\ projects' = commit(projects, write)
            /\ At(t, "done", c, write, None)
    /\ UNCHANGED <<agent_state, threads, runs>>

SendMessageCall(t) ==
    /\ CanStartAlone(t)
    /\ \E c \in SendMessageCalls(ProjectNames, t) :
        At(t, "commit", c, send_message_write(projects, c), None)
    /\ UNCHANGED <<agent_state, projects, threads, runs>>

ExecuteAgentCall(t) ==
    /\ CanStartAlone(t)
    /\ \E c \in ExecuteAgentCalls(ProjectNames) :
        /\ threads' = execute_agent_launch(threads, c)
        /\ At(t, "done", c, NoWrite, None)
    /\ UNCHANGED <<agent_state, projects, runs>>

SeqNext ==
    \E t \in Tasks :
        \/ AddToCurrentStateCall(t)
        \/ UpdateLatestStateCall(t)
        \/ SetAgentActiveCall(t)
        \/ SetAgentCompletedCall(t)
        \/ UpdateTokenUsageCall(t)
        \/ CreateProjectCall(t)
        \/ AddMessageFromUserCall(t)
        \/ AddMessageFromDevikaCall(t)
        \/ SendMessageCall(t)
        \/ SendMessageCommit(t)
        \/ SendMessageCheck(t)
        \/ ExecuteAgentCall(t)

SeqSpec == Init /\ [][SeqNext]_vars

\* StateSeqSpec: the StateLog writers alone, one call at a time.
StateSeqNext ==
    \E t \in Tasks :
        \/ AddToCurrentStateCall(t)
        \/ UpdateLatestStateCall(t)
        \/ SetAgentActiveCall(t)
        \/ SetAgentCompletedCall(t)
        \/ UpdateTokenUsageCall(t)

StateSeqSpec == Init /\ [][StateSeqNext]_vars

\* MessageSeqSpec: the MessageLog writers alone (create_project, the two
\* appends and send_message, which appends too), one call at a time.
MessageSeqNext ==
    \E t \in Tasks :
        \/ CreateProjectCall(t)
        \/ AddMessageFromUserCall(t)
        \/ AddMessageFromDevikaCall(t)
        \/ SendMessageCall(t)
        \/ SendMessageCommit(t)
        \/ SendMessageCheck(t)

MessageSeqSpec == Init /\ [][MessageSeqNext]_vars

\* PartialSpec: add_to_current_state and update_latest_state, one call at a
\* time, where update_latest_state is also given dicts that are not whole
\* snapshots (its parameter is any dict).
UpdateLatestStatePartialCall(t) ==
    /\ CanStartAlone(t)
    /\ \E c \in UpdateLatestStatePartialCalls(ProjectNames) :
        LET write == StateWrite(agent_state, c)
        IN  /\ agent_state' = commit(agent_state, write)
            /\ At(t, "done", c, write, None)
    /\ UNCHANGED <<projects, threads, runs>>

PartialNext ==
    \E t \in Tasks :
        \/ AddToCurrentStateCall(t)
        \/ UpdateLatestStateCall(t)
        \/ UpdateLatestStatePartialCall(t)

PartialSpec == Init /\ [][PartialNext]_vars

---------------------------------------------------------------------------
(* ReadSpec: the readers of the two managers, called one at a time among   *)
(* calls that give some projects a row.  A reader opens a Session, SELECTs *)
(* and returns; it adds nothing to the session and does not commit.        *)

ReadCalls(op, P) == {[op |-> op, project |-> p] : p \in P}

GetMessagesCall(t) ==
    /\ CanStartAlone(t)
    /\ \E c \in ReadCalls("get_messages", ProjectNames) :
        At(t, "done", c, NoWrite, get_messages(projects, c.project))
    /\ UNCHANGED <<agent_state, projects, threads, runs>>

GetCurrentStateCall(t) ==
    /\ CanStartAlone(t)
    /\ \E c \in ReadCalls("get_current_state", ProjectNames) :
        At(t, "done", c, NoWrite, get_current_state(agent_state, c.project))
    /\ UNCHANGED <<agent_state, projects, threads, runs>>

GetLatestStateCall(t) ==
    /\ CanStartAlone(t)
    /\ \E c \in ReadCalls("get_latest_state", ProjectNames) :
        At(t, "done", c, NoWrite, get_latest_state(agent_state, c.project))
    /\ UNCHANGED <<agent_state, projects, threads, runs>>

IsAgentActiveCall(t) ==
    /\ CanStartAlone(t)
    /\ \E c \in ReadCalls("is_agent_active", ProjectNames) :
        At(t, "done", c, NoWrite, is_agent_active(agent_state, c.project))
    /\ UNCHANGED <<agent_state, projects, threads, runs>>

IsAgentCompletedCall(t) ==
    /\ CanStartAlone(t)
    /\ \E c \in ReadCalls("is_agent_completed", ProjectNames) :
        At(t, "done", c, NoWrite, is_agent_completed(agent_state, c.project))
    /\ UNCHANGED <<agent_state, projects, threads, runs>>

GetLatestTokenUsageCall(t) ==
    /\ CanStartAlone(t)
    /\ \E c \in ReadCalls("get_latest_token_usage", ProjectNames) :
        At(t, "done", c, NoWrite, get_latest_token_usage(agent_state, c.project))
    /\ UNCHANGED <<agent_state, projects, threads, runs>>

ReadNext ==
    \E t \in Tasks :
        \/ GetMessagesCall(t)
        \/ GetCurrentStateCall(t)
        \/ GetLatestStateCall(t)
        \/ IsAgentActiveCall(t)
        \/ IsAgentCompletedCall(t)
        \/ GetLatestTokenUsageCall(t)
        \/ CreateProjectCall(t)
        \/ AddMessageFromUserCall(t)
        \/ SetAgentCompletedCall(t)

ReadSpec == Init /\ [][ReadNext]_vars

---------------------------------------------------------------------------
(* RunSpec: the routes create_project, send_message and execute_agent are  *)
(* called one after the other, and every thread they start runs beside     *)
(* them.  The Agent class a thread runs is not part *)
(* of the sources at hand; a run is what the specification says of it: it  *)
(* appends its reply to the MessageLog and then marks the latest snapshot  *)
(* completed, each through the manager's SELECT and commit.                *)

\* The reply of a run and the second its writes fall in.
RunReplyText == Some("hi there")

RunClock == "2024-04-01 10:00:01"

\* Thread i is at step pc of its run.
RunAt(i, pc) == i \in DOMAIN threads /\ runs[i].pc = pc

RunTo(i, pc, write) == runs' = [runs EXCEPT ![i] = [pc |-> pc, pending |-> write]]

RunReply(i) ==
    /\ RunAt(i, "launched")
    /\ RunTo(i, "reply", add_message_from_devika(projects, threads[i].project,
                                                 RunReplyText, RunClock))
    /\ UNCHANGED <<agent_state, projects, task, threads>>

RunReplyCommit(i) ==
    /\ RunAt(i, "reply")
    /\ projects' = commit(projects, runs[i].pending)
    /\ RunTo(i, "replied", NoWrite)
    /\ UNCHANGED <<agent_state, task, threads>>

RunComplete(i) ==
    /\ RunAt(i, "replied")
    /\ RunTo(i, "complete", set_agent_completed(agent_state, threads[i].project,
                                                TRUE, RunClock))
    /\ UNCHANGED <<agent_state, projects, task, threads>>

RunCompleteCommit(i) ==
    /\ RunAt(i, "complete")
    /\ agent_state' = commit(agent_state, runs[i].pending)
    /\ RunTo(i, "finished", NoWrite)
    /\ UNCHANGED <<projects, task, threads>>

RunNext ==
    \/ \E t \in Tasks :
            \/ CreateProjectCall(t)
            \/ SendMessageCall(t)
            \/ SendMessageCommit(t)
            \/ SendMessageCheck(t)
            \/ ExecuteAgentCall(t)
    \/ \E i \in Tasks :
            \/ RunReply(i)
            \/ RunReplyCommit(i)
            \/ RunComplete(i)
            \/ RunCompleteCommit(i)

RunSpec == Init /\ [][RunNext]_vars

---------------------------------------------------------------------------
(* SnapshotSpec: new_state and Browser.screenshot, called one at a time    *)
(* among add_to_current_state and set_agent_completed calls.               *)

\* A faulty variant: leaves browser_session.url unset.
screenshot_state_without_url(page_url, path_to_save, timestamp) ==
    [new_state(timestamp) EXCEPT
        !.internal_monologue = Some("Browsing the web right now..."),
        !.browser_session.screenshot = Some(path_to_save)]

\* Browser.screenshot, lines 62-65: the snapshot it builds
screenshot_state(page_url, path_to_save, timestamp) ==
    [new_state(timestamp) EXCEPT
        !.internal_monologue = Some("Browsing the web right now..."),
        !.browser_session.url = Some(page_url),
        !.browser_session.screenshot = Some(path_to_save)]

ScreenshotCalls(P, t) ==
    {[op |-> "screenshot", project |-> p, page_url |-> u,
      path_to_save |-> os_path_join(ScreenshotsDir, f), timestamp |-> Clock(t)] :
        p \in P, u \in PageUrls, f \in ScreenshotFiles}

NewStateCall(t) ==
    /\ CanStartAlone(t)
    /\ At(t, "done", [op |-> "new_state", timestamp |-> Clock(t)], NoWrite,
          Some(new_state(Clock(t))))
    /\ UNCHANGED <<agent_state, projects, threads, runs>>

ScreenshotCall(t) ==
    /\ CanStartAlone(t)
    /\ \E c \in ScreenshotCalls(ProjectNames, t) :
        LET write == add_to_current_state(agent_state, c.project,
                        screenshot_state(c.page_url, c.path_to_save, c.timestamp))
        IN  /\ agent_state' = commit(agent_state, write)
            /\ At(t, "done", c, write, Some(c.path_to_save))
    /\ UNCHANGED <<projects, threads, runs>>

SnapshotNext ==
    \E t \in Tasks :
        \/ NewStateCall(t)
        \/ ScreenshotCall(t)
        \/ AddToCurrentStateCall(t)
        \/ SetAgentCompletedCall(t)
        \/ UpdateTokenUsageCall(t)

SnapshotSpec == Init /\ [][SnapshotNext]_vars

---------------------------------------------------------------------------
(* ArchiveSpec: get_all_messages_formatted, project_to_zip and             *)
(* get_zip_path, called one at a time among calls that fill the two logs.  *)
(* A project name is given to the path rule as its characters; a project   *)
(* directory is given as what os.walk yields for it, top down.             *)

RECURSIVE concat(_)
\* "".join(parts)
concat(parts) == IF parts = <<>> THEN "" ELSE parts[1] \o concat(Tail(parts))

\* str.lower(), on the letters the names use
lower(ch) ==
    CASE ch = "A" -> "a" [] ch = "D" -> "d" [] ch = "M" -> "m" [] OTHER -> ch

\* project.lower().replace(" ", "-")
project_dir_name(project) ==
    concat([i \in 1..Len(project) |-> IF project[i] = " " THEN "-" ELSE lower(project[i])])

\* A faulty variant: the directory named as the project is.
get_project_path_verbatim(project) == os_path_join("data/projects", concat(project))

\* get_project_path, with Config().get_projects_dir() = data/projects
get_project_path(project) == os_path_join("data/projects", project_dir_name(project))

get_zip_path(project) == get_project_path(project) \o ".zip"

RECURSIVE path_of(_)
\* The path made of the given components.
path_of(components) ==
    IF Len(components) = 1 THEN components[1]
    ELSE os_path_join(components[1], path_of(Tail(components)))

RECURSIVE arcnames(_, _)
\* project_to_zip, lines 282-285: os.path.relpath of every file of the
\* walk, taken from the parent of the project directory `dir`
arcnames(dir, walk) ==
    IF walk = <<>> THEN <<>>
    ELSE [i \in 1..Len(walk[1].files) |->
              path_of(<<dir>> \o walk[1].root \o <<walk[1].files[i]>>)]
          \o arcnames(dir, Tail(walk))

RECURSIVE arcnames_inside(_, _)
\* The same with the paths taken from the project directory itself.
arcnames_inside(dir, walk) ==
    IF walk = <<>> THEN <<>>
    ELSE [i \in 1..Len(walk[1].files) |-> path_of(walk[1].root \o <<walk[1].files[i]>>)]
          \o arcnames_inside(dir, Tail(walk))

\* A faulty variant: entry names relative to the project directory.
project_to_zip_inside(project, walk) ==
    [kind |-> "zipfile", path |-> get_project_path(project) \o ".zip",
     names |-> arcnames_inside(project_dir_name(project), walk)]

\* project_to_zip: the archive it writes
project_to_zip(project, walk) ==
    [kind |-> "zipfile", path |-> get_project_path(project) \o ".zip",
     names |-> arcnames(project_dir_name(project), walk)]

\* str(message['message']) inside the f-string
message_text(message) == IF message.message = None THEN "None" ELSE message.message[1]

\* A faulty variant: every line labelled as the user's.
get_all_messages_formatted_as_user(table, project) ==
    LET found == query_first(table, project)
    IN  IF found # None
        THEN LET message_stack == loads_message_stack(found[1].json)
             IN  [i \in 1..Len(message_stack) |-> "User: " \o message_text(message_stack[i])]
        ELSE <<>>

get_all_messages_formatted(table, project) ==
    LET found == query_first(table, project)
    IN  IF found # None
        THEN LET message_stack == loads_message_stack(found[1].json)
             IN  [i \in 1..Len(message_stack) |->
                    IF message_stack[i].from_devika
                    THEN "Devika: " \o message_text(message_stack[i])
                    ELSE "User: " \o message_text(message_stack[i])]
        ELSE <<>>

\* A faulty variant: the transcript gives a project without a row one.
archive_write_creating(table, c) ==
    IF c.op = "get_all_messages_formatted" /\ query_first(table, c.project) = None
    THEN Insert(c.project, dumps_message_stack(<<>>))
    ELSE NoWrite

\* What an archive call hands to session.commit(): nothing.  The transcript
\* only SELECTs, the two zip methods open no Session.
archive_write(table, c) == NoWrite

ArchiveProjects ==
    {<<"D", "e", "m", "o">>, <<"M", "y", " ", "A", "p", "p">>, <<"m", "y", "-", "a", "p", "p">>}

\* os.walk of: a missing directory, an empty one, one with a.txt and sub/b.txt
Walks ==
    { <<>>,
      <<[root |-> <<>>, files |-> <<>>]>>,
      <<[root |-> <<>>, files |-> <<"a.txt">>], [root |-> <<"sub">>, files |-> <<"b.txt">>]>> }

GetAllMessagesFormattedCall(t) ==
    /\ CanStartAlone(t)
    /\ \E c \in ReadCalls("get_all_messages_formatted", ProjectNames) :
        /\ projects' = commit(projects, archive_write(projects, c))
        /\ At(t, "done", c, NoWrite, Some(get_all_messages_formatted(projects, c.project)))
    /\ UNCHANGED <<agent_state, threads, runs>>

ProjectToZipCall(t) ==
    /\ CanStartAlone(t)
    /\ \E c \in {[op |-> "project_to_zip", project |-> p, walk |-> w] :
                    p \in ArchiveProjects, w \in Walks} :
        /\ projects' = commit(projects, archive_write(projects, c))
        /\ At(t, "done", c, project_to_zip(c.project, c.walk),
              Some(project_to_zip(c.project, c.walk).path))
    /\ UNCHANGED <<agent_state, threads, runs>>

GetZipPathCall(t) ==
    /\ CanStartAlone(t)
    /\ \E c \in ReadCalls("get_zip_path", ArchiveProjects) :
        /\ projects' = commit(projects, archive_write(projects, c))
        /\ At(t, "done", c, NoWrite, Some(get_zip_path(c.project)))
    /\ UNCHANGED <<agent_state, threads, runs>>

ArchiveNext ==
    \E t \in Tasks :
        \/ GetAllMessagesFormattedCall(t)
        \/ ProjectToZipCall(t)
        \/ GetZipPathCall(t)
        \/ AddMessageFromUserCall(t)
        \/ AddMessageFromDevikaCall(t)
        \/ SetAgentCompletedCall(t)

ArchiveSpec == Init /\ [][ArchiveNext]_vars

---------------------------------------------------------------------------
(* FileSpec: PDF.markdown_to_pdf and ReadCode.read_directory, called one   *)
(* at a time.  The converter's answer and the directory's content are the  *)
(* inputs of the calls.                                                    *)

\* A faulty variant: the converter's error count is not looked at.
markdown_to_pdf_unchecked(err, project_name) ==
    Some(os_path_join("data/pdfs", project_name \o ".pdf"))

\* markdown_to_pdf, with Config().get_pdfs_dir() = data/pdfs and `err` the
\* err field of the status pisa.CreatePDF returned
markdown_to_pdf(err, project_name) ==
    LET out_file_path == os_path_join("data/pdfs", project_name \o ".pdf")
    IN  IF err # 0 THEN Raised("Exception") ELSE Some(out_file_path)

RECURSIVE read_directory_failing(_, _)
\* A faulty variant: the first unreadable file ends the scan with its error.
read_directory_failing(directory_path, walk) ==
    IF walk = <<>> THEN Some(<<>>)
    ELSE IF walk[1].files = <<>> THEN read_directory_failing(directory_path, Tail(walk))
    ELSE LET file == walk[1].files[1]
             rest == read_directory_failing(directory_path,
                        <<[walk[1] EXCEPT !.files = Tail(@)]>> \o Tail(walk))
         IN  IF file.read[1] = "raise" THEN file.read
             ELSE IF rest[1] = "raise" THEN rest
             ELSE Some(<<[filename |-> path_of(<<directory_path>> \o walk[1].root \o <<file.name>>),
                          code |-> file.read[1]]>> \o rest[1])

RECURSIVE read_directory(_, _)
\* read_directory: `walk` is what os.walk(self.directory_path) yields, every
\* file with what open(file_path, 'r') and read() give for it, the text or
\* the exception raised.  The bare except passes over a file that raises.
read_directory(directory_path, walk) ==
    IF walk = <<>> THEN Some(<<>>)
    ELSE IF walk[1].files = <<>> THEN read_directory(directory_path, Tail(walk))
    ELSE LET file == walk[1].files[1]
             file_path == path_of(<<directory_path>> \o walk[1].root \o <<file.name>>)
             rest == read_directory(directory_path,
                        <<[walk[1] EXCEPT !.files = Tail(@)]>> \o Tail(walk))
         IN  IF file.read[1] = "raise" THEN rest
             ELSE Some(<<[filename |-> file_path, code |-> file.read[1]]>> \o rest[1])

\* What reading a file gives: its text, or the exception of open() or read()
FileReads == {Some("x = 1"), Raised("PermissionError"), Raised("UnicodeDecodeError")}

\* os.walk of: a missing directory; a directory with a.py and b.py, and
\* c.py in its subdirectory sub
CodeWalks ==
    {<<>>}
    \cup {<<[root |-> <<>>, files |-> <<[name |-> "a.py", read |-> r1],
                                        [name |-> "b.py", read |-> r2]>>],
            [root |-> <<"sub">>, files |-> <<[name |-> "c.py", read |-> Some("x = 1")]>>]>> :
            r1 \in FileReads, r2 \in FileReads}

MarkdownToPdfCall(t) ==
    /\ CanStartAlone(t)
    /\ \E c \in {[op |-> "markdown_to_pdf", project_name |-> p, err |-> e] :
                    p \in ProjectNames, e \in 0..2} :
        At(t, "done", c, NoWrite, markdown_to_pdf(c.err, c.project_name))
    /\ UNCHANGED <<agent_state, projects, threads, runs>>

ReadDirectoryCall(t) ==
    /\ CanStartAlone(t)
    /\ \E c \in {[op |-> "read_directory", project |-> p, walk |-> w] :
                    p \in ArchiveProjects, w \in CodeWalks} :
        At(t, "done", c, NoWrite, read_directory(get_project_path(c.project), c.walk))
    /\ UNCHANGED <<agent_state, projects, threads, runs>>

FileNext ==
    \E t \in Tasks :
        \/ MarkdownToPdfCall(t)
        \/ ReadDirectoryCall(t)

FileSpec == Init /\ [][FileNext]_vars

---------------------------------------------------------------------------
(* GuardSpec: concurrent requests to send_message on one project, beside   *)
(* the threads they start and calls of set_agent_completed.                *)
(* A run here follows the protocol the completed flag is meant for: it     *)
(* writes completed = false when it starts working and completed = true    *)
(* when it finishes, each through set_agent_completed's SELECT and commit, *)
(* and it may crash at any point before it has finished.                   *)

RunStart(i) ==
    /\ RunAt(i, "launched")
    /\ RunTo(i, "start", set_agent_completed(agent_state, threads[i].project,
                                             FALSE, RunClock))
    /\ UNCHANGED <<agent_state, projects, task, threads>>

RunStartCommit(i) ==
    /\ RunAt(i, "start")
    /\ agent_state' = commit(agent_state, runs[i].pending)
    /\ RunTo(i, "working", NoWrite)
    /\ UNCHANGED <<projects, task, threads>>

RunFinish(i) ==
    /\ RunAt(i, "working")
    /\ RunTo(i, "complete", set_agent_completed(agent_state, threads[i].project,
                                                TRUE, RunClock))
    /\ UNCHANGED <<agent_state, projects, task, threads>>

\* An exception leaves the thread's target: nothing catches it, the thread
\* ends and what it was about to commit is dropped.
RunCrash(i) ==
    /\ i \in DOMAIN threads
    /\ runs[i].pc \in {"launched", "start", "working", "complete"}
    /\ RunTo(i, "crashed", NoWrite)
    /\ UNCHANGED <<agent_state, projects, task, threads>>

GuardNext ==
    \/ \E t \in Tasks :
            \/ SetAgentCompleted(t)
            \/ CommitState(t)
            \/ SendMessage(t)
            \/ SendMessageCommit(t)
            \/ SendMessageCheck(t)
    \/ \E i \in Tasks :
            \/ RunStart(i)
            \/ RunStartCommit(i)
            \/ RunFinish(i)
            \/ RunCompleteCommit(i)
            \/ RunCrash(i)

GuardSpec == Init /\ [][GuardNext]_vars

---------------------------------------------------------------------------
(* OrderSpec: one task issues appends and updates to the two logs and      *)
(* reads of them, one call after the other; every call returns, its commit *)
(* done, before the next is made.                                          *)

OrderNext ==
    \E t \in Tasks :
        \/ AddToCurrentStateCall(t)
        \/ UpdateLatestStateCall(t)
        \/ AddMessageFromUserCall(t)
        \/ AddMessageFromDevikaCall(t)
        \/ GetCurrentStateCall(t)
        \/ GetMessagesCall(t)

OrderSpec == Init /\ [][OrderNext]_vars

---------------------------------------------------------------------------
(* HandlerSpec: requests to send_message and execute_agent, one after the  *)
(* other, with set_agent_completed calls in between; the threads they      *)
(* start have not written anything yet.                                    *)

\* A faulty variant: the same answer with or without a model.
execute_agent_response_started(c) == [message |-> "Started Devika Agent"]

\* execute_agent, lines 64-65 and 72: the JSON it answers with
execute_agent_response(c) ==
    IF ~TruthyStr(c.base_model) THEN [error |-> "base_model is required"]
    ELSE [message |-> "Started Devika Agent"]

\* execute_agent, lines 59-72, with its answer
ExecuteAgentRequest(t) ==
    /\ CanStartAlone(t)
    /\ \E c \in ExecuteAgentCalls(ProjectNames) :
        /\ threads' = execute_agent_launch(threads, c)
        /\ At(t, "done", c, NoWrite, Some(execute_agent_response(c)))
    /\ UNCHANGED <<agent_state, projects, runs>>

HandlerNext ==
    \E t \in Tasks :
        \/ SetAgentCompletedCall(t)
        \/ SendMessageCall(t)
        \/ SendMessageCommit(t)
        \/ SendMessageCheck(t)
        \/ ExecuteAgentRequest(t)

HandlerSpec == Init /\ [][HandlerNext]_vars

---------------------------------------------------------------------------
(* DeleteSpec: delete_project and delete_state, called one at a time among *)
(* the writers of the two tables, on two projects.                         *)

\* ProjectManager.delete_project: the first row of the project, if any
delete_project(table, project) ==
    LET found == query_first(table, project)
    IN  IF found # None THEN Delete(found[1]) ELSE NoWrite

\* AgentState.delete_state: the first row of the project, if any
delete_state(table, project) ==
    LET found == query_first(table, project)
    IN  IF found # None THEN Delete(found[1]) ELSE NoWrite

DeleteProjectCall(t) ==
    /\ CanStartAlone(t)
    /\ \E c \in ReadCalls("delete_project", ProjectNames) :
        LET write == delete_project(projects, c.project)
        IN  /\ projects' = commit(projects, write)
            /\ At(t, "done", c, write, None)
    /\ UNCHANGED <<agent_state, threads, runs>>

DeleteStateCall(t) ==
    /\ CanStartAlone(t)
    /\ \E c \in ReadCalls("delete_state", ProjectNames) :
        LET write == delete_state(agent_state, c.project)
        IN  /\ agent_state' = commit(agent_state, write)
            /\ At(t, "done", c, write, None)
    /\ UNCHANGED <<projects, threads, runs>>

DeleteNext ==
    \E t \in Tasks :
        \/ DeleteProjectCall(t)
        \/ DeleteStateCall(t)
        \/ CreateProjectCall(t)
        \/ AddMessageFromUserCall(t)
        \/ AddMessageFromDevikaCall(t)
        \/ AddToCurrentStateCall(t)
        \/ UpdateLatestStateCall(t)
        \/ SetAgentActiveCall(t)
        \/ SetAgentCompletedCall(t)
        \/ UpdateTokenUsageCall(t)

DeleteSpec == Init /\ [][DeleteNext]_vars

---------------------------------------------------------------------------
(* NameSpec: the same project names used as keys of the two tables and as  *)
(* directory names, one call at a time.  A call is given the name as its   *)
(* characters; the key it filters the table by is the string they make.    *)

\* ReadCode.__init__, line 19: self.directory_path
ReadCode_directory_path(project_name) ==
    os_path_join("data/projects", project_dir_name(project_name))

AddMessageNamedCall(t) ==
    /\ CanStartAlone(t)
    /\ \E c \in AddMessageFromUserCalls({concat(n) : n \in ArchiveProjects}, t) :
        LET write == MessageWrite(projects, c)
        IN  /\ projects' = commit(projects, write)
            /\ At(t, "done", c, write, None)
    /\ UNCHANGED <<agent_state, threads, runs>>

AddToCurrentStateNamedCall(t) ==
    /\ CanStartAlone(t)
    /\ \E c \in AddToCurrentStateCalls({concat(n) : n \in ArchiveProjects}) :
        LET write == StateWrite(agent_state, c)
        IN  /\ agent_state' = commit(agent_state, write)
            /\ At(t, "done", c, write, None)
    /\ UNCHANGED <<projects, threads, runs>>

GetProjectPathCall(t) ==
    /\ CanStartAlone(t)
    /\ \E c \in ReadCalls("get_project_path", ArchiveProjects) :
        At(t, "done", c, NoWrite, Some(get_project_path(c.project)))
    /\ UNCHANGED <<agent_state, projects, threads, runs>>

ReadCodeInitCall(t) ==
    /\ CanStartAlone(t)
    /\ \E c \in ReadCalls("ReadCode", ArchiveProjects) :
        At(t, "done", c, NoWrite, Some(ReadCode_directory_path(c.project)))
    /\ UNCHANGED <<agent_state, projects, threads, runs>>

NameNext ==
    \E t \in Tasks :
        \/ AddMessageNamedCall(t)
        \/ AddToCurrentStateNamedCall(t)
        \/ GetProjectPathCall(t)
        \/ GetZipPathCall(t)
        \/ ReadCodeInitCall(t)

NameSpec == Init /\ [][NameNext]_vars

---------------------------------------------------------------------------
(* Claims.                                                                 *)

\* The state log of a project as get_current_state returns it; empty when absent.
StateLogIn(table, p) ==
    LET r == get_current_state(table, p) IN IF r = None THEN <<>> ELSE r[1]

StateLogOf(p) == StateLogIn(agent_state, p)

\* The message log of a project as get_messages returns it; empty when absent.
MessageLogIn(table, p) ==
    LET r == get_messages(table, p) IN IF r = None THEN <<>> ELSE r[1]

MessageLogOf(p) == MessageLogIn(projects, p)

Started(t) == task[t].pc # "idle"

Done(t) == task[t].pc = "done"

\* Task t has just taken a step of its call.
Stepped(t) == task'[t] # task[t]

\* The only calls made are set_agent_completed(p, True) and
\* update_token_usage(p, 5), by two tasks, and both have returned.
C1_BothReturned(p) ==
    \E t1, t2 \in Tasks :
        /\ t1 # t2
        /\ Done(t1) /\ Done(t2)
        /\ task[t1].call.op = "set_agent_completed"
        /\ task[t1].call.project = p
        /\ task[t1].call.is_completed
        /\ task[t2].call.op = "update_token_usage"
        /\ task[t2].call.project = p
        /\ task[t2].call.token_usage = 5
        /\ \A u \in Tasks \ {t1, t2} : ~Started(u)

\* C1: when set_agent_completed(p, True) and update_token_usage(p, 5) run
\* concurrently on a project without an agent_state row, then whatever the
\* interleaving of their SELECTs and commits, once both have returned
\* get_latest_state(p) has completed = true and token_usage = 5.
C1_NoLostUpdate ==
    \A p \in SharedProject :
        C1_BothReturned(p) =>
            LET latest == get_latest_state(agent_state, p)
            IN  /\ latest # None
                /\ latest[1].completed
                /\ latest[1].token_usage = 5

\* C6: under any interleaving of the five StateLog writers, the length of a
\* project's state log, once at least 1, never decreases.
C6_NeverTruncated ==
    [][\A p \in SharedProject :
            Len(StateLogOf(p)) >= 1 => Len(StateLogIn(agent_state', p)) >= Len(StateLogOf(p))]_vars

\* C3: send_message starts a subsequent_execute thread if and only if the
\* latest snapshot of the project has completed = true at the moment the
\* handler reads the flag; with completed = false, or with no state log, it
\* starts none.
C3_LaunchIffCompleted ==
    [][\A t \in Tasks :
            (task[t].pc = "check" /\ task'[t].pc = "done") =>
                LET c   == task[t].call
                    log == StateLogOf(c.project)
                IN  IF Len(log) > 0 /\ log[Len(log)].completed
                    THEN threads' = Append(threads, resume_thread(c))
                    ELSE threads' = threads]_vars

\* One send_message found no state log and started nothing, a later one
\* found completed = true and started its thread.
C3_Witness ==
    \E t, u \in Tasks :
        /\ Done(t) /\ task[t].call.op = "send_message" /\ task[t].ret = None
        /\ Done(u) /\ task[u].call.op = "send_message" /\ task[u].ret = Some(TRUE)
        /\ threads = <<resume_thread(task[u].call)>>

\* C5: every execute_agent call with a non-empty base_model starts an
\* execute thread, whatever the project's flags and however many threads
\* the project already has: the execute threads of a project are as many as
\* the returned execute_agent calls for it that named a model.
C5_ExecuteAlwaysLaunches ==
    \A p \in SharedProject :
        Cardinality({i \in DOMAIN threads :
                        threads[i].target = "execute" /\ threads[i].project = p})
          = Cardinality({t \in Tasks :
                            /\ Done(t)
                            /\ task[t].call.op = "execute_agent"
                            /\ task[t].call.project = p
                            /\ TruthyStr(task[t].call.base_model)})

\* Two execute threads were started for a project whose latest snapshot
\* says the agent is active and not completed.
C5_Witness ==
    \E p \in SharedProject :
        /\ is_agent_active(agent_state, p) = Some(TRUE)
        /\ is_agent_completed(agent_state, p) = Some(FALSE)
        /\ Cardinality({i \in DOMAIN threads :
                            threads[i].target = "execute" /\ threads[i].project = p}) >= 2

\* The message a returned call has appended to the log of its project.
AppendOps == {"add_message_from_user", "add_message_from_devika", "send_message"}

HasAppended(t, p) ==
    /\ task[t].pc \in {"check", "done"}
    /\ task[t].call.op \in AppendOps
    /\ task[t].call.project = p

AppendedMessage(t) ==
    [ from_devika |-> task[t].call.op = "add_message_from_devika",
      message     |-> task[t].call.message,
      timestamp   |-> task[t].call.timestamp ]

RECURSIVE Appends(_, _)
\* The messages appended to p by the calls 1..n, in call order.
Appends(p, n) ==
    IF n = 0 THEN <<>>
    ELSE IF HasAppended(n, p) THEN Append(Appends(p, n - 1), AppendedMessage(n))
         ELSE Appends(p, n - 1)

NeverCreated(p) ==
    \A t \in Tasks : Started(t) => ~(task[t].call.op = "create_project" /\ task[t].call.project = p)

\* C2: after N appends, one after the other, to a project that had no
\* projects row, get_messages returns exactly those N messages, each once,
\* in the order of the appends (and None before the first).
C2_AppendOrder ==
    \A p \in ProjectNames :
        NeverCreated(p) =>
            get_messages(projects, p) =
                (IF Appends(p, NumTasks) = <<>> THEN None ELSE Some(Appends(p, NumTasks)))

\* Three appends to one project, the first two with different texts.
C2_Witness ==
    \E p \in ProjectNames :
        /\ NeverCreated(p)
        /\ Len(Appends(p, NumTasks)) >= 3
        /\ Appends(p, NumTasks)[1].message # Appends(p, NumTasks)[2].message
        /\ get_messages(projects, p) = Some(Appends(p, NumTasks))

\* C4: a send_message call, running alone, appends its user message
\* (from_devika = false) to the log of the project exactly once: the commit
\* of the append comes before the completed flag is read and before a thread
\* is started, and neither the step before nor the step after it changes the
\* log, whether or not the latest snapshot is completed.
C4_AppendBeforeCheck ==
    [][\A t \in Tasks :
            (Stepped(t) /\ task'[t].call.op = "send_message") =>
                LET c   == task'[t].call
                    msg == [from_devika |-> FALSE, message |-> c.message,
                            timestamp |-> c.timestamp]
                IN  CASE task'[t].pc = "commit" ->
                            projects' = projects /\ threads' = threads
                      [] task'[t].pc = "check" ->
                            /\ MessageLogIn(projects', c.project) = Append(MessageLogOf(c.project), msg)
                            /\ threads' = threads
                            /\ agent_state' = agent_state
                      [] task'[t].pc = "done" ->
                            /\ projects' = projects
                            /\ MessageLogOf(c.project)[Len(MessageLogOf(c.project))] = msg]_vars

\* A send_message that started a thread and one that did not have both
\* returned, and the log holds both user messages.
C4_Witness ==
    \E t, u \in Tasks, p \in ProjectNames :
        /\ t < u
        /\ Done(t) /\ task[t].call.op = "send_message" /\ task[t].call.project = p
        /\ Done(u) /\ task[u].call.op = "send_message" /\ task[u].call.project = p
        /\ ~Truthy(task[t].ret) /\ Truthy(task[u].ret)
        /\ Len(threads) = 1
        /\ Len(MessageLogOf(p)) = 2
        /\ \A i \in 1..2 : ~MessageLogOf(p)[i].from_devika

\* C7: add_to_current_state(p, s) makes the state log of p one longer (1
\* when p had none), with s last and the earlier snapshots as they were.
C7_AppendGrowsByOne ==
    [][\A t \in Tasks :
            (Stepped(t) /\ task'[t].call.op = "add_to_current_state") =>
                LET c == task'[t].call
                IN  StateLogIn(agent_state', c.project) = Append(StateLogOf(c.project), c.state)]_vars

\* An add_to_current_state has appended to a log that already existed.
C7_Witness ==
    \E t \in Tasks :
        /\ Done(t) /\ task[t].call.op = "add_to_current_state"
        /\ task[t].pending.kind = "update"
        /\ Len(StateLogOf(task[t].call.project)) >= 2
        /\ StateLogOf(task[t].call.project)[1] # task[t].call.state

\* C8: update_latest_state(p, s) on a non-empty state log keeps its length
\* and replaces only the last snapshot by s: get_latest_state(p) is then s
\* and the snapshots before the last are as they were.
C8_UpdateLatestKeepsLength ==
    [][\A t \in Tasks :
            (/\ Stepped(t)
             /\ task'[t].call.op = "update_latest_state"
             /\ Len(StateLogOf(task'[t].call.project)) > 0) =>
                LET c   == task'[t].call
                    log == StateLogOf(c.project)
                IN  /\ StateLogIn(agent_state', c.project) = [log EXCEPT ![Len(log)] = c.state]
                    /\ Len(StateLogIn(agent_state', c.project)) = Len(log)
                    /\ get_latest_state(agent_state', c.project) = Some(c.state)]_vars

\* An update_latest_state has changed the last of two snapshots.
C8_Witness ==
    \E t \in Tasks :
        /\ Done(t) /\ task[t].call.op = "update_latest_state"
        /\ task[t].pending.kind = "update"
        /\ task[t].pending.json # task[t].pending.loaded
        /\ Len(StateLogOf(task[t].call.project)) = 2
        /\ StateLogOf(task[t].call.project)[1] # task[t].call.state
        /\ StateLogOf(task[t].call.project)[2] = task[t].call.state

\* C9: update_token_usage(p, k) adds exactly k to get_latest_token_usage(p)
\* when p has a state log; when it has none the call creates the log and
\* get_latest_token_usage(p) becomes k.
C9_TokenUsageAdds ==
    [][\A t \in Tasks :
            (Stepped(t) /\ task'[t].call.op = "update_token_usage") =>
                LET c   == task'[t].call
                    old == get_latest_token_usage(agent_state, c.project)
                IN  IF Len(StateLogOf(c.project)) > 0
                    THEN get_latest_token_usage(agent_state', c.project)
                            = Some(old[1] + c.token_usage)
                    ELSE /\ get_latest_token_usage(agent_state', c.project)
                                = Some(c.token_usage)
                         /\ Len(StateLogIn(agent_state', c.project)) = 1]_vars

\* An update_token_usage has added to a usage that was not 0.
C9_Witness ==
    \E t \in Tasks :
        /\ Done(t) /\ task[t].call.op = "update_token_usage"
        /\ task[t].pending.kind = "update"
        /\ get_latest_token_usage(agent_state, task[t].call.project)[1]
                > task[t].call.token_usage

\* C10: validate_last_message_is_from_user returns false, and raises
\* nothing, for a project without a row, for one with an empty log and for
\* one whose last message has from_devika = true; it returns true exactly
\* when the log is non-empty and its last message has from_devika = false.
C10_LastMessageFromUser ==
    \A p \in ProjectNames :
        LET log == MessageLogOf(p)
        IN  validate_last_message_is_from_user(projects, p) =
                Some(IF Len(log) = 0 THEN FALSE ELSE ~log[Len(log)].from_devika)

\* One project has an empty log (create_project) and the other a log that
\* holds a user message followed by a message of the agent.
C10_Witness ==
    \E p, q \in ProjectNames :
        /\ get_messages(projects, p) = Some(<<>>)
        /\ validate_last_message_is_from_user(projects, p) = Some(FALSE)
        /\ Len(MessageLogOf(q)) = 2
        /\ ~MessageLogOf(q)[1].from_devika
        /\ MessageLogOf(q)[2].from_devika
        /\ validate_last_message_is_from_user(projects, q) = Some(FALSE)

\* The calls on p are: create_project(p), then a send_message that has
\* appended its user message, then execute_agent only.
C11_Scenario(p) ==
    /\ Done(1) /\ task[1].call.op = "create_project" /\ task[1].call.project = p
    /\ HasAppended(2, p) /\ task[2].call.op = "send_message"
    /\ \A t \in Tasks :
            (t >= 3 /\ Started(t) /\ task[t].call.project = p) =>
                task[t].call.op = "execute_agent"

\* The threads started for project p.
ThreadsOf(p) == {i \in DOMAIN threads : threads[i].project = p}

\* The message a run appends as its reply.
RunReplyMessage ==
    [from_devika |-> TRUE, message |-> RunReplyText, timestamp |-> RunClock]

\* C11: a project is created with create_project and has no state log.  Once
\* a user message is appended, is_agent_completed returns None (so
\* send_message itself starts nothing) and execute_agent starts a run; once
\* that run has appended its reply and marked the latest snapshot completed,
\* get_messages returns the user message followed by the reply, and
\* is_agent_completed returns True.
C11_EndToEnd ==
    \A p \in ProjectNames :
        C11_Scenario(p) =>
            /\ (\A i \in ThreadsOf(p) : runs[i].pc # "finished") =>
                    is_agent_completed(agent_state, p) = None
            /\ Done(2) => (~Truthy(task[2].ret) /\ (Started(3) \/ ThreadsOf(p) = {}))
            /\ \A t \in Tasks :
                    (Done(t) /\ task[t].call.op = "execute_agent"
                        /\ task[t].call.project = p /\ TruthyStr(task[t].call.base_model)) =>
                        \E i \in ThreadsOf(p) : threads[i] = execute_thread(task[t].call)
            /\ \A i \in ThreadsOf(p) :
                    (ThreadsOf(p) = {i} /\ runs[i].pc = "finished") =>
                        /\ get_messages(projects, p) =
                                Some(<<AppendedMessage(2), RunReplyMessage>>)
                        /\ is_agent_completed(agent_state, p) = Some(TRUE)

\* The run of the scenario has finished, after a send_message that appended
\* the user message and started nothing.
C11_Witness ==
    \E p \in ProjectNames :
        /\ C11_Scenario(p)
        /\ \E i \in ThreadsOf(p) : ThreadsOf(p) = {i} /\ runs[i].pc = "finished"
        /\ Len(MessageLogOf(p)) = 2
        /\ ~MessageLogOf(p)[1].from_devika /\ MessageLogOf(p)[2].from_devika

\* C12: whenever the state log of a project is non-empty, get_latest_state
\* returns its last element, and is_agent_active, is_agent_completed and
\* get_latest_token_usage return the agent_is_active, completed and
\* token_usage fields of that same element.
C12_ReadersSeeLast ==
    \A p \in ProjectNames :
        LET log == StateLogOf(p)
        IN  Len(log) > 0 =>
                /\ get_latest_state(agent_state, p) = Some(log[Len(log)])
                /\ is_agent_active(agent_state, p) = Some(log[Len(log)].agent_is_active)
                /\ is_agent_completed(agent_state, p) = Some(log[Len(log)].completed)
                /\ get_latest_token_usage(agent_state, p) = Some(log[Len(log)].token_usage)

\* A log of three snapshots whose last differs from its first in all three
\* fields, read by the four readers.
C12_Witness ==
    \E p \in ProjectNames :
        LET log == StateLogOf(p)
        IN  /\ Len(log) = 3
            /\ log[3].completed # log[1].completed
            /\ log[3].agent_is_active # log[1].agent_is_active
            /\ log[3].token_usage # log[1].token_usage
            /\ get_latest_state(agent_state, p) = Some(log[3])
            /\ is_agent_completed(agent_state, p) = Some(log[3].completed)

PatchOps == {"set_agent_active", "set_agent_completed", "update_token_usage"}

\* The one snapshot field a patch call is about.
PatchedField(c) ==
    CASE c.op = "set_agent_active"    -> "agent_is_active"
      [] c.op = "set_agent_completed" -> "completed"
      [] c.op = "update_token_usage"  -> "token_usage"

\* The argument of a patch call.
PatchArgument(c) ==
    CASE c.op = "set_agent_active"    -> c.is_active
      [] c.op = "set_agent_completed" -> c.is_completed
      [] c.op = "update_token_usage"  -> c.token_usage

\* C13: on a project with a non-empty state log, set_agent_active,
\* set_agent_completed and update_token_usage keep the length of the log,
\* leave every element before the last as it was, and leave every field of
\* the last element other than their own as it was.
C13_PatchFrame ==
    [][\A t \in Tasks :
            (Stepped(t) /\ task'[t].call.op \in PatchOps) =>
                LET c    == task'[t].call
                    log  == StateLogOf(c.project)
                    log2 == StateLogIn(agent_state', c.project)
                IN  Len(log) > 0 =>
                        /\ Len(log2) = Len(log)
                        /\ \A i \in 1..(Len(log) - 1) : log2[i] = log[i]
                        /\ \A k \in DOMAIN log[Len(log)] \ {PatchedField(c)} :
                                log2[Len(log)][k] = log[Len(log)][k]]_vars

\* A set_agent_completed(p, True) has changed the completed field of the
\* second of two snapshots that differ in other fields too.
C13_Witness ==
    \E t \in Tasks, p \in ProjectNames :
        /\ Done(t) /\ task[t].call.op = "set_agent_completed" /\ task[t].call.project = p
        /\ task[t].call.is_completed
        /\ task[t].pending.kind = "update" /\ task[t].pending.json # task[t].pending.loaded
        /\ Len(StateLogOf(p)) = 2
        /\ StateLogOf(p)[2].completed /\ StateLogOf(p)[2].agent_is_active
        /\ StateLogOf(p)[2].token_usage = 3
        /\ StateLogOf(p)[1].message # StateLogOf(p)[2].message

\* The snapshot a patch call builds for a project without a state log.
C14_Default(timestamp) ==
    [ internal_monologue |-> None,
      browser_session    |-> [url |-> None, screenshot |-> None],
      terminal_session   |-> [command |-> None, output |-> None, title |-> None],
      step               |-> None,
      message            |-> None,
      completed          |-> FALSE,
      agent_is_active    |-> TRUE,
      token_usage        |-> 0,
      timestamp          |-> timestamp ]

\* C14: on a project without a state log, set_agent_active,
\* set_agent_completed and update_token_usage create a log of length 1 whose
\* single element is the default snapshot (completed false, agent_is_active
\* true, token_usage 0, the other fields null, timestamp the time of the
\* call) with only the field the call is about set to its argument.
C14_PatchCreates ==
    [][\A t \in Tasks :
            (Stepped(t) /\ task'[t].call.op \in PatchOps) =>
                LET c == task'[t].call
                IN  get_current_state(agent_state, c.project) = None =>
                        /\ Len(StateLogIn(agent_state', c.project)) = 1
                        /\ StateLogIn(agent_state', c.project)[1] =
                            [k \in DOMAIN C14_Default(c.timestamp) |->
                                IF k = PatchedField(c) THEN PatchArgument(c)
                                ELSE C14_Default(c.timestamp)[k]]]_vars

\* The first call on a project is update_token_usage(p, 5): its log is one
\* snapshot with token_usage 5, not completed, active.
C14_Witness ==
    \E t \in Tasks, p \in ProjectNames :
        /\ Done(t) /\ task[t].call.op = "update_token_usage" /\ task[t].call.project = p
        /\ task[t].call.token_usage = 5
        /\ task[t].pending.kind = "insert"
        /\ Len(StateLogOf(p)) = 1
        /\ StateLogOf(p)[1].token_usage = 5
        /\ ~StateLogOf(p)[1].completed /\ StateLogOf(p)[1].agent_is_active

\* C15 as stated: update_latest_state(p, s) on a project without a state log
\* leaves a log of length 1 whose element has every key of the default
\* snapshot, with the value s gives it where s has the key and the default
\* value otherwise (timestamp aside, which the default takes from the clock).
C15_UpdateLatestCreatesDefaulted ==
    [][\A t \in Tasks :
            (Stepped(t) /\ task'[t].call.op = "update_latest_state") =>
                LET c    == task'[t].call
                    log2 == StateLogIn(agent_state', c.project)
                    dflt == C14_Default("")
                IN  get_current_state(agent_state, c.project) = None =>
                        /\ Len(log2) = 1
                        /\ DOMAIN dflt \subseteq DOMAIN log2[1]
                        /\ \A k \in DOMAIN dflt \cap DOMAIN log2[1] :
                                IF k \in DOMAIN c.state THEN log2[1][k] = c.state[k]
                                ELSE k = "timestamp" \/ log2[1][k] = dflt[k]]_vars

\* C15, amended: update_latest_state(p, s) on a project without a state log
\* leaves a log of length 1 whose element is s as given, with the keys of s
\* and no others.
C15_UpdateLatestCreatesVerbatim ==
    [][\A t \in Tasks :
            (Stepped(t) /\ task'[t].call.op = "update_latest_state") =>
                LET c == task'[t].call
                IN  get_current_state(agent_state, c.project) = None =>
                        /\ StateLogIn(agent_state', c.project) = <<c.state>>
                        /\ DOMAIN StateLogIn(agent_state', c.project)[1] = DOMAIN c.state]_vars

\* update_latest_state(p, {"completed": True}) was the first call on p, and
\* the log of p is that dict alone.
C15_Witness ==
    \E t \in Tasks, p \in ProjectNames :
        /\ Done(t) /\ task[t].call.op = "update_latest_state" /\ task[t].call.project = p
        /\ task[t].call.state = [completed |-> TRUE]
        /\ task[t].pending.kind = "insert"
        /\ StateLogOf(p) = <<[completed |-> TRUE]>>

\* The calls that have written to the message log of p so far.
MessageWriters(p) ==
    {t \in Tasks : \/ (Done(t) /\ task[t].call.op = "create_project" /\ task[t].call.project = p)
                   \/ HasAppended(t, p)}

\* C16: get_messages(p) is None for a project that was never created and
\* never appended to, and the empty list after create_project(p) with no
\* append; the first append to a project without a row, with nothing after
\* it, leaves a log of exactly that one message.
C16_AbsentEmptyFirst ==
    \A p \in ProjectNames :
        LET W == MessageWriters(p)
        IN  /\ W = {} => get_messages(projects, p) = None
            /\ (W # {} /\ \A t \in W : task[t].call.op = "create_project") =>
                    get_messages(projects, p) = Some(<<>>)
            /\ \A t \in W :
                    (W = {t} /\ HasAppended(t, p)) =>
                        get_messages(projects, p) = Some(<<AppendedMessage(t)>>)

\* One project was created and not appended to, the other got its row from
\* a single append.
C16_Witness ==
    \E p, q \in ProjectNames :
        /\ \E t \in Tasks : MessageWriters(p) = {t} /\ task[t].call.op = "create_project"
        /\ get_messages(projects, p) = Some(<<>>)
        /\ \E t \in Tasks : MessageWriters(q) = {t} /\ HasAppended(t, q)
        /\ Len(MessageLogOf(q)) = 1

\* The indices of the messages of p that come from devika (TRUE) or from
\* the user (FALSE).
IndicesFrom(p, from_devika) ==
    {i \in 1..Len(MessageLogOf(p)) : MessageLogOf(p)[i].from_devika = from_devika}

\* C17: get_latest_message_from_user and get_latest_message_from_devika
\* return the message with the highest index among those of their role, and
\* None if the log holds no message of that role.
C17_LatestByRole ==
    \A p \in ProjectNames :
        /\ get_latest_message_from_user(projects, p) =
                (IF IndicesFrom(p, FALSE) = {} THEN None
                 ELSE Some(MessageLogOf(p)[Max(IndicesFrom(p, FALSE))]))
        /\ get_latest_message_from_devika(projects, p) =
                (IF IndicesFrom(p, TRUE) = {} THEN None
                 ELSE Some(MessageLogOf(p)[Max(IndicesFrom(p, TRUE))]))

\* Two different user messages, then one from devika: the second and the
\* third are the latest of their roles.
C17_Witness ==
    \E p \in ProjectNames :
        /\ Len(MessageLogOf(p)) = 3
        /\ IndicesFrom(p, FALSE) = {1, 2}
        /\ MessageLogOf(p)[1] # MessageLogOf(p)[2]
        /\ get_latest_message_from_user(projects, p) = Some(MessageLogOf(p)[2])
        /\ get_latest_message_from_devika(projects, p) = Some(MessageLogOf(p)[3])

StateReadOps == {"get_current_state", "get_latest_state", "is_agent_active",
                 "is_agent_completed", "get_latest_token_usage"}

\* No row of the table is a row of project p.
NoRow(table, p) == \A i \in DOMAIN table : table[i].project # p

\* C18: a read of a project that has no row returns None (get_messages,
\* get_current_state, get_latest_state, is_agent_active, is_agent_completed)
\* or 0 (get_latest_token_usage), not an error, and a read leaves both
\* tables as they were: it creates no row.
C18_AbsentReads ==
    [][\A t \in Tasks :
            (Stepped(t) /\ task'[t].call.op \in StateReadOps \cup {"get_messages"}) =>
                LET c == task'[t].call
                IN  /\ agent_state' = agent_state
                    /\ projects' = projects
                    /\ (c.op = "get_messages" /\ NoRow(projects, c.project)) =>
                            task'[t].ret = None
                    /\ (c.op \in StateReadOps \ {"get_latest_token_usage"}
                            /\ NoRow(agent_state, c.project)) =>
                            task'[t].ret = None
                    /\ (c.op = "get_latest_token_usage" /\ NoRow(agent_state, c.project)) =>
                            task'[t].ret = Some(0)]_vars

\* get_latest_token_usage returned 0 and is_agent_completed returned None
\* for a project that still has no row in either table, while the other
\* project has rows.
C18_Witness ==
    \E t, u \in Tasks, p, q \in ProjectNames :
        /\ Done(t) /\ task[t].call = [op |-> "get_latest_token_usage", project |-> p]
        /\ task[t].ret = Some(0)
        /\ Done(u) /\ task[u].call = [op |-> "is_agent_completed", project |-> p]
        /\ task[u].ret = None
        /\ NoRow(agent_state, p) /\ NoRow(projects, p)
        /\ ~NoRow(agent_state, q)

\* C19: create_project(p) on a project that already has a row (from an
\* earlier create_project or from a first message) is a no-op: it leaves
\* get_project_list and get_messages(p) as they were.
C19_CreateIdempotent ==
    [][\A t \in Tasks :
            (Stepped(t) /\ task'[t].call.op = "create_project") =>
                LET p == task'[t].call.project
                IN  ~NoRow(projects, p) =>
                        /\ get_project_list(projects') = get_project_list(projects)
                        /\ get_messages(projects', p) = get_messages(projects, p)]_vars

\* C20: once a message is in get_messages(p) at some index, it stays there
\* with the same content in every later state.
C20_MessagesImmutable ==
    [][\A p \in ProjectNames :
            \A i \in 1..Len(MessageLogOf(p)) :
                /\ i <= Len(MessageLogIn(projects', p))
                /\ MessageLogIn(projects', p)[i] = MessageLogOf(p)[i]]_vars

\* C21: new_state returns a snapshot with internal_monologue None,
\* browser_session {url: None, screenshot: None}, terminal_session
\* {command: None, output: None, title: None}, step None, message None,
\* completed False, agent_is_active True and token_usage 0 (and the time of
\* the call as its timestamp).
C21_NewStateDefaults ==
    \A t \in Tasks :
        (Done(t) /\ task[t].call.op = "new_state") =>
            LET s == task[t].ret[1]
            IN  /\ s.internal_monologue = None
                /\ s.browser_session = [url |-> None, screenshot |-> None]
                /\ s.terminal_session = [command |-> None, output |-> None, title |-> None]
                /\ s.step = None
                /\ s.message = None
                /\ s.completed = FALSE
                /\ s.agent_is_active = TRUE
                /\ s.token_usage = 0
                /\ s.timestamp = task[t].call.timestamp
                /\ DOMAIN s = {"internal_monologue", "browser_session", "terminal_session",
                               "step", "message", "completed", "agent_is_active",
                               "token_usage", "timestamp"}

\* new_state was called at two different times, after a screenshot that
\* filled the browser_session of a snapshot of its own.
C21_Witness ==
    \E t, u, v \in Tasks :
        /\ Done(t) /\ task[t].call.op = "screenshot"
        /\ Done(u) /\ task[u].call.op = "new_state"
        /\ Done(v) /\ task[v].call.op = "new_state"
        /\ t < u /\ u < v
        /\ task[u].call.timestamp # task[v].call.timestamp
        /\ task[v].ret[1].browser_session.url = None

\* C22: Browser.screenshot(project) appends one snapshot to the state log of
\* the project, leaving the snapshots before it as they were; the new
\* snapshot has the page URL and the returned path in browser_session, the
\* fixed status string as internal_monologue and the defaults elsewhere.
C22_ScreenshotAppends ==
    [][\A t \in Tasks :
            (Stepped(t) /\ task'[t].call.op = "screenshot") =>
                LET c    == task'[t].call
                    log  == StateLogOf(c.project)
                    log2 == StateLogIn(agent_state', c.project)
                    s    == log2[Len(log2)]
                IN  /\ Len(log2) = Len(log) + 1
                    /\ SubSeq(log2, 1, Len(log)) = log
                    /\ task'[t].ret = Some(c.path_to_save)
                    /\ s.browser_session =
                            [url |-> Some(c.page_url), screenshot |-> task'[t].ret]
                    /\ s.internal_monologue = Some("Browsing the web right now...")
                    /\ \A k \in DOMAIN s \ {"browser_session", "internal_monologue"} :
                            s[k] = C14_Default(c.timestamp)[k]]_vars

\* A screenshot was taken on a project whose log already held a completed
\* snapshot: the log now has two, the second from the browser.
C22_Witness ==
    \E t \in Tasks, p \in ProjectNames :
        /\ Done(t) /\ task[t].call.op = "screenshot" /\ task[t].call.project = p
        /\ task[t].pending.kind = "update"
        /\ Len(StateLogOf(p)) = 2
        /\ StateLogOf(p)[1].completed
        /\ StateLogOf(p)[2].browser_session.url = Some(task[t].call.page_url)
        /\ ~StateLogOf(p)[2].completed

ArchiveOps == {"get_all_messages_formatted", "project_to_zip", "get_zip_path"}

\* C23: project_to_zip, get_zip_path and get_all_messages_formatted leave
\* both tables, and so the message log and the state log of every project,
\* as they were; a project without a row gets none.
C23_ArchiveReadOnly ==
    [][\A t \in Tasks :
            (Stepped(t) /\ task'[t].call.op \in ArchiveOps) =>
                /\ agent_state' = agent_state
                /\ projects' = projects]_vars

\* The transcript of a project without a row was asked for while the other
\* project has messages and a state log, and an archive was written.
C23_Witness ==
    \E t, u \in Tasks, p, q \in ProjectNames :
        /\ Done(t) /\ task[t].call = [op |-> "get_all_messages_formatted", project |-> p]
        /\ NoRow(projects, p) /\ NoRow(agent_state, p)
        /\ Len(MessageLogOf(q)) = 1
        /\ Done(u) /\ task[u].call.op = "project_to_zip"
        /\ Len(task[u].pending.names) = 2

\* C24: the archive of a project directory holding a.txt and sub/b.txt has
\* exactly the two entries <directory name>/a.txt and
\* <directory name>/sub/b.txt, one entry per file in general, and is written
\* at the project path plus ".zip", the path get_zip_path returns.
C24_ZipEntries ==
    \A t \in Tasks :
        (Done(t) /\ task[t].call.op = "project_to_zip") =>
            LET c     == task[t].call
                names == task[t].pending.names
                dir   == IF c.project = <<"D", "e", "m", "o">> THEN "demo" ELSE "my-app"
            IN  /\ task[t].pending.path = "data/projects/" \o dir \o ".zip"
                /\ task[t].pending.path = get_zip_path(c.project)
                /\ task[t].ret = Some(task[t].pending.path)
                /\ Len(c.walk) = 2 =>
                        /\ Len(names) = 2
                        /\ {names[i] : i \in 1..Len(names)} =
                                {dir \o "/a.txt", dir \o "/sub/b.txt"}
                /\ Len(c.walk) < 2 => names = <<>>

\* The directory of project "My App" with its two files was archived.
C24_Witness ==
    \E t \in Tasks :
        /\ Done(t) /\ task[t].call.op = "project_to_zip"
        /\ task[t].call.project = <<"M", "y", " ", "A", "p", "p">>
        /\ task[t].pending.names = <<"my-app/a.txt", "my-app/sub/b.txt">>
        /\ task[t].ret = Some("data/projects/my-app.zip")

\* C25 as stated: the transcript has one line per message, in log order,
\* "Agent: " and the text for a message from the agent, "User: " and the
\* text for one from the user; it is empty for a project without a row.
C25_TranscriptAgentLabel ==
    [][\A t \in Tasks :
            (Stepped(t) /\ task'[t].call.op = "get_all_messages_formatted") =>
                LET log == MessageLogOf(task'[t].call.project)
                IN  task'[t].ret =
                        Some([i \in 1..Len(log) |->
                                (IF log[i].from_devika THEN "Agent: " ELSE "User: ")
                                    \o log[i].message[1]])]_vars

\* C25, amended: the same with the label "Devika: " for the agent's lines.
C25_TranscriptDevikaLabel ==
    [][\A t \in Tasks :
            (Stepped(t) /\ task'[t].call.op = "get_all_messages_formatted") =>
                LET log == MessageLogOf(task'[t].call.project)
                IN  /\ task'[t].ret =
                            Some([i \in 1..Len(log) |->
                                    (IF log[i].from_devika THEN "Devika: " ELSE "User: ")
                                        \o log[i].message[1]])
                    /\ NoRow(projects, task'[t].call.project) => task'[t].ret = Some(<<>>)]_vars

\* A transcript of a user line followed by an agent line was returned.
C25_Witness ==
    \E t \in Tasks :
        /\ Done(t) /\ task[t].call.op = "get_all_messages_formatted"
        /\ task[t].ret = Some(<<"User: hello", "Devika: hi there">>)

---------------------------------------------------------------------------
\* C26: a call of markdown_to_pdf for which the converter reported an error
\* (a nonzero error count) has raised and returned no path; a call for
\* which it reported none has returned <pdfs dir>/<project_name>.pdf.
C26_PdfErrorRaises ==
    \A t \in Tasks :
        (Done(t) /\ task[t].call.op = "markdown_to_pdf") =>
            IF task[t].call.err = 0
            THEN task[t].ret = <<"data/pdfs/" \o task[t].call.project_name \o ".pdf">>
            ELSE task[t].ret = <<"raise", "Exception">>

\* A conversion that reported an error and one that reported none have
\* both been made.
C26_Witness ==
    \E t, u \in Tasks :
        /\ Done(t) /\ task[t].call.op = "markdown_to_pdf" /\ task[t].call.err # 0
        /\ Done(u) /\ task[u].call.op = "markdown_to_pdf" /\ task[u].call.err = 0

RECURSIVE C27_Files(_, _)
\* The files of a walk, in walk order, each with its full path.
C27_Files(directory_path, walk) ==
    IF walk = <<>> THEN <<>>
    ELSE [i \in 1..Len(walk[1].files) |->
              [filename |-> path_of(<<directory_path>> \o walk[1].root
                                        \o <<walk[1].files[i].name>>),
               read |-> walk[1].files[i].read]]
          \o C27_Files(directory_path, Tail(walk))

C27_Readable(file) == file.read[1] # "raise"

\* C27: a call of read_directory has returned a list, whatever the files
\* gave when read: one {filename, code} entry for each readable file of the
\* walk and none for the others, in walk order.
C27_UnreadableSkipped ==
    \A t \in Tasks :
        (Done(t) /\ task[t].call.op = "read_directory") =>
            LET readable == SelectSeq(C27_Files(get_project_path(task[t].call.project),
                                                task[t].call.walk), C27_Readable)
            IN  /\ Len(task[t].ret) = 1
                /\ task[t].ret[1] =
                       [i \in 1..Len(readable) |->
                            [filename |-> readable[i].filename, code |-> readable[i].read[1]]]

\* A scan has met an unreadable file before two readable ones.
C27_Witness ==
    \E t \in Tasks :
        /\ Done(t) /\ task[t].call.op = "read_directory"
        /\ Len(task[t].call.walk) = 2
        /\ task[t].call.walk[1].files[1].read = Raised("PermissionError")
        /\ task[t].call.walk[1].files[2].read = Some("x = 1")
        /\ Len(task[t].ret[1]) = 2

---------------------------------------------------------------------------
\* C28: the commit of a StateLog writer that changed the log it had loaded
\* replaces the whole stored log of the project by the log the writer
\* serialized, whatever has been committed since the writer's SELECT:
\* nothing of the log stored at that moment is merged into it.
C28_CommitOverwritesLog ==
    [][\A t \in Tasks :
            (/\ task[t].pc = "commit" /\ task'[t].pc = "done"
             /\ task[t].call.op \in StateOps
             /\ task[t].pending.kind = "update"
             /\ task[t].pending.json # task[t].pending.loaded) =>
                StateLogIn(agent_state', task[t].call.project)
                    = loads_state_stack(task[t].pending.json)]_vars

\* set_agent_completed(True) and update_token_usage have both loaded the
\* same existing log and both have committed; the stored log is the one
\* update_token_usage serialized, and its latest snapshot still has
\* completed = false.
C28_Witness ==
    \E t, u \in Tasks :
        /\ Done(t) /\ Done(u)
        /\ task[t].call.op = "set_agent_completed" /\ task[t].call.is_completed
        /\ task[u].call.op = "update_token_usage"
        /\ task[t].pending.kind = "update" /\ task[u].pending.kind = "update"
        /\ task[t].pending.loaded = task[u].pending.loaded
        /\ task[t].pending.json # task[t].pending.loaded
        /\ StateLogOf(task[t].call.project) = loads_state_stack(task[u].pending.json)
        /\ LET latest == get_latest_state(agent_state, task[t].call.project)
           IN  latest # None /\ ~latest[1].completed

---------------------------------------------------------------------------
\* Thread i has started working and has neither finished nor crashed.
C29_Working(i) == i \in DOMAIN threads /\ runs[i].pc \in {"start", "working", "complete"}

\* The only write to the state log that is not a run's is one
\* set_agent_completed call, made before any request.
C29_OnlyRunsWrite ==
    \A t \in Tasks : task[t].call.op = "set_agent_completed" => t = 1

\* C29: when all runs of a project are started through send_message and
\* every run writes completed = false when it starts working and completed
\* = true when it finishes, at most one run of the project is at work at
\* any time, whatever the interleaving of the requests.
C29_AtMostOneRunning ==
    (C29_OnlyRunsWrite /\ \A i \in DOMAIN threads : threads[i].target = "subsequent_execute") =>
        \A p \in SharedProject :
            Cardinality({i \in DOMAIN threads : threads[i].project = p /\ C29_Working(i)}) <= 1

---------------------------------------------------------------------------
\* A thread of project p has crashed.
C30_Crashed(p) ==
    \E i \in DOMAIN threads : threads[i].project = p /\ runs[i].pc = "crashed"

\* Task t takes the step of send_message that reads the completed flag.
C30_Checks(t) == task[t].call.op = "send_message" /\ task[t].pc = "check" /\ task'[t].pc = "done"

\* C30 as stated: once a run of the project has crashed, a send_message
\* that reads the flag afterwards leaves the state log alone and starts no
\* thread.
C30_CrashBlocksResume ==
    [][\A t \in Tasks :
            (C30_Checks(t) /\ C30_Crashed(task[t].call.project)) =>
                /\ agent_state' = agent_state
                /\ threads' = threads]_vars

\* C30, amended: once a run of the project has crashed, no step of a
\* send_message request changes the state log; the request commits its
\* message at the end of the log it read, and starts a resume thread
\* exactly when the latest snapshot it reads has completed = true, none
\* when it has completed = false or there is no log.
C30_CrashLeavesFlagInCharge ==
    [][\A t \in Tasks :
            (/\ Stepped(t)
             /\ task'[t].call.op = "send_message"
             /\ C30_Crashed(task'[t].call.project)) =>
                LET c   == task'[t].call
                    log == StateLogOf(c.project)
                IN  /\ agent_state' = agent_state
                    /\ task[t].pc = "commit" =>
                            \E r \in DOMAIN projects' :
                                LET stack == loads_message_stack(projects'[r].json)
                                IN  /\ projects'[r].project = c.project
                                    /\ Len(stack) > 0
                                    /\ stack[Len(stack)] = user_message(c)
                    /\ C30_Checks(t) =>
                            IF Len(log) > 0 /\ log[Len(log)].completed
                            THEN threads' = Append(threads, resume_thread(c))
                            ELSE threads' = threads]_vars

\* A run has written completed = false and crashed; a send_message has read
\* that flag and returned without starting a thread, its message in the log.
C30_Witness ==
    \E t \in Tasks :
        /\ Done(t) /\ task[t].call.op = "send_message" /\ task[t].ret = Some(FALSE)
        /\ Len(threads) = 1 /\ runs[1].pc = "crashed"
        /\ \A u \in Tasks : task[u].call.op = "set_agent_completed" => task[u].call.is_completed
        /\ LET latest == get_latest_state(agent_state, task[t].call.project)
               log == MessageLogIn(projects, task[t].call.project)
           IN  /\ latest # None /\ ~latest[1].completed
               /\ \E k \in DOMAIN log : log[k] = user_message(task[t].call)

---------------------------------------------------------------------------
RECURSIVE C31_StatesIssued(_, _)
\* The state log the calls 1..n to project p amount to, taken in the order
\* they were issued: an append adds its snapshot at the end, an update
\* puts its snapshot in the place of the last one (or is the first one).
C31_StatesIssued(p, n) ==
    IF n = 0 THEN <<>>
    ELSE LET before == C31_StatesIssued(p, n - 1)
             c == task[n].call
         IN  IF ~Done(n) \/ c.op \notin {"add_to_current_state", "update_latest_state"}
             THEN before
             ELSE IF c.project # p THEN before
             ELSE IF c.op = "add_to_current_state" \/ before = <<>>
             THEN Append(before, c.state)
             ELSE [before EXCEPT ![Len(before)] = c.state]

\* C31: with the calls of one task made one after the other, the state log
\* and the message log of a project hold the task's writes in the order it
\* issued them, and every read the task made returned the log made of all
\* the writes it had issued before that read.
C31_IssueOrder ==
    /\ \A p \in ProjectNames :
        /\ StateLogOf(p) = C31_StatesIssued(p, NumTasks)
        /\ MessageLogOf(p) = Appends(p, NumTasks)
    /\ \A t \in Tasks :
        /\ (Done(t) /\ task[t].call.op = "get_current_state") =>
                LET issued == C31_StatesIssued(task[t].call.project, t - 1)
                IN  task[t].ret = (IF issued = <<>> THEN None ELSE Some(issued))
        /\ (Done(t) /\ task[t].call.op = "get_messages") =>
                LET issued == Appends(task[t].call.project, t - 1)
                IN  task[t].ret = (IF issued = <<>> THEN None ELSE Some(issued))

\* The task appended two different snapshots to a project and then read its
\* state log: the read returned both, in that order.
C31_Witness ==
    \E t \in Tasks :
        /\ t >= 3 /\ Done(t) /\ task[t].call.op = "get_current_state"
        /\ task[t - 1].call.op = "add_to_current_state"
        /\ task[t - 2].call.op = "add_to_current_state"
        /\ task[t - 1].call.project = task[t].call.project
        /\ task[t - 2].call.project = task[t].call.project
        /\ task[t - 1].call.state # task[t - 2].call.state
        /\ task[t].ret = Some(<<task[t - 2].call.state, task[t - 1].call.state>>)

---------------------------------------------------------------------------
\* C32: in every reachable state, under any interleaving of the first writes
\* of the five StateLog writers to a project, agent_state holds at most one
\* row for the project.
C32_OneRowPerProject ==
    \A p \in SharedProject :
        Cardinality({r \in DOMAIN agent_state : agent_state[r].project = p}) <= 1

---------------------------------------------------------------------------
\* C33: in every reachable state every agent_state row holds a stack of at
\* least one snapshot, no writer has failed on a last-element access, and
\* none of the readers of the last snapshot fails for any project.
C33_StacksNonEmpty ==
    /\ \A r \in DOMAIN agent_state : Len(loads_state_stack(agent_state[r].json)) >= 1
    /\ \A t \in Tasks :
        (Started(t) /\ task[t].call.op \in StateOps) => task[t].pending.kind # "raise"
    /\ \A p \in SharedProject :
        /\ get_latest_state(agent_state, p) # Raised("IndexError")
        /\ is_agent_active(agent_state, p) # Raised("IndexError")
        /\ is_agent_completed(agent_state, p) # Raised("IndexError")
        /\ get_latest_token_usage(agent_state, p) # Raised("IndexError")

\* A row created by update_latest_state has since been written by a patch
\* operation and by an update_latest_state that found it.
C33_Witness ==
    \E t, u, v \in Tasks :
        /\ Done(t) /\ task[t].call.op = "update_latest_state" /\ task[t].pending.kind = "insert"
        /\ Done(u) /\ task[u].call.op = "update_latest_state" /\ task[u].pending.kind = "update"
        /\ Done(v) /\ task[v].call.op \in PatchOps /\ task[v].pending.kind = "update"
        /\ Len(agent_state) = 1

---------------------------------------------------------------------------
\* C34: no step of a send_message or execute_agent request changes the
\* state log of any project.  Of the steps of send_message only the commit
\* changes the message logs, by appending the request's message to the log
\* of its project; execute_agent changes no message log.  A send_message
\* that follows one which read completed = true for the same project reads
\* completed = true as well and starts a resume thread of its own.
C34_HandlersLeaveStateLog ==
    [][\A t \in Tasks :
            (Stepped(t) /\ task'[t].call.op \in {"send_message", "execute_agent"}) =>
                LET c == task'[t].call
                IN  /\ agent_state' = agent_state
                    /\ IF c.op = "send_message" /\ task[t].pc = "commit"
                       THEN \A p \in ProjectNames :
                                MessageLogIn(projects', p) =
                                    (IF p = c.project
                                     THEN Append(MessageLogOf(p), user_message(c))
                                     ELSE MessageLogOf(p))
                       ELSE projects' = projects
                    /\ (/\ C30_Checks(t)
                        /\ (IF t = 1 THEN FALSE
                            ELSE /\ task[t - 1].call.op = "send_message"
                                 /\ task[t - 1].call.project = c.project
                                 /\ task[t - 1].ret = Some(TRUE))) =>
                            /\ task'[t].ret = Some(TRUE)
                            /\ threads' = Append(threads, resume_thread(c))]_vars

\* Two send_message requests in a row found completed = true and each
\* started a resume thread.
C34_Witness ==
    \E t \in Tasks :
        /\ t >= 2 /\ Done(t)
        /\ task[t].call.op = "send_message" /\ task[t - 1].call.op = "send_message"
        /\ task[t].call.project = task[t - 1].call.project
        /\ task[t].ret = Some(TRUE) /\ task[t - 1].ret = Some(TRUE)
        /\ Len(threads) = 2
        /\ threads[1] = resume_thread(task[t - 1].call)
        /\ threads[2] = resume_thread(task[t].call)

---------------------------------------------------------------------------
\* The request names no model: base_model is missing or the empty string.
C35_NoModel(c) ==
    IF c.op \in {"send_message", "execute_agent"}
    THEN c.base_model = None \/ c.base_model = Some("")
    ELSE FALSE

\* C35: an execute_agent request without a base_model answers with the
\* error result, starts no thread and changes no log.  A send_message
\* request without a base_model is treated like any other: its commit
\* appends its message, and it starts its resume thread, with the model it
\* was given, when it reads completed = true.
C35_ModelRequiredByExecuteOnly ==
    [][\A t \in Tasks :
            (Stepped(t) /\ C35_NoModel(task'[t].call)) =>
                LET c == task'[t].call
                    log == StateLogOf(c.project)
                IN  /\ c.op = "execute_agent" =>
                            /\ task'[t].ret = Some([error |-> "base_model is required"])
                            /\ threads' = threads
                            /\ agent_state' = agent_state
                            /\ projects' = projects
                    /\ (c.op = "send_message" /\ task[t].pc = "commit") =>
                            MessageLogIn(projects', c.project)
                                = Append(MessageLogOf(c.project), user_message(c))
                    /\ (C30_Checks(t) /\ Len(log) > 0) =>
                            (log[Len(log)].completed =>
                                threads' = Append(threads,
                                    [target |-> "subsequent_execute", base_model |-> c.base_model,
                                     arg |-> c.message, project |-> c.project]))]_vars

\* An execute_agent request without a model was refused, and a send_message
\* request without a model has started its thread.
C35_Witness ==
    \E t, u \in Tasks :
        /\ Done(t) /\ task[t].call.op = "execute_agent" /\ task[t].call.base_model = None
        /\ task[t].ret = Some([error |-> "base_model is required"])
        /\ Done(u) /\ task[u].call.op = "send_message" /\ task[u].call.base_model = None
        /\ task[u].ret = Some(TRUE)
        /\ Len(threads) = 1 /\ threads[1].base_model = None

---------------------------------------------------------------------------
\* C36: a delete_project(p) call leaves get_messages(p) = None and p out of
\* get_project_list, in any state create_project and message appends lead
\* to; it changes no state log and no other project's message log, and on
\* a project without a row it changes nothing.
C36_DeleteRemovesProject ==
    [][\A t \in Tasks :
            (Stepped(t) /\ task'[t].call.op = "delete_project") =>
                LET p == task'[t].call.project
                    list == get_project_list(projects')
                IN  /\ get_messages(projects', p) = None
                    /\ \A k \in DOMAIN list : list[k] # p
                    /\ agent_state' = agent_state
                    /\ \A q \in ProjectNames \ {p} :
                            get_messages(projects', q) = get_messages(projects, q)
                    /\ NoRow(projects, p) => projects' = projects]_vars

---------------------------------------------------------------------------
\* The rows a table holds for project q, in rowid order.
C37_RowsOf(table, q) == SelectSeq(table, LAMBDA row : row.project = q)

C37_MessageLogOps == MessageOps \cup {"create_project", "delete_project"}

C37_StateLogOps == StateOps \cup {"delete_state"}

\* C37: a call of a MessageLog or StateLog operation on project p leaves
\* the rows of every other project as they were, in both tables; a
\* MessageLog operation leaves the agent_state table as it was, and a
\* StateLog operation leaves the projects table as it was.
C37_IsolatedPerProjectAndLog ==
    [][\A t \in Tasks :
            (Stepped(t) /\ task'[t].call.op \in C37_MessageLogOps \cup C37_StateLogOps) =>
                LET c == task'[t].call
                IN  /\ \A q \in ProjectNames \ {c.project} :
                        /\ C37_RowsOf(projects', q) = C37_RowsOf(projects, q)
                        /\ C37_RowsOf(agent_state', q) = C37_RowsOf(agent_state, q)
                    /\ c.op \in C37_MessageLogOps => agent_state' = agent_state
                    /\ c.op \in C37_StateLogOps => projects' = projects]_vars

\* A message was appended to one project and a snapshot to its state log
\* while the other project had a message log, which still is as it was.
C37_Witness ==
    \E t, u, v \in Tasks :
        /\ t < u /\ t < v /\ Done(t) /\ Done(u) /\ Done(v)
        /\ task[t].call.op = "add_message_from_user"
        /\ task[u].call.op = "add_message_from_user"
        /\ task[v].call.op = "add_to_current_state"
        /\ task[u].call.project # task[t].call.project
        /\ task[v].call.project # task[t].call.project
        /\ MessageLogOf(task[t].call.project) = <<AppendedMessage(t)>>
        /\ Len(MessageLogOf(task[u].call.project)) = 1
        /\ Len(StateLogOf(task[v].call.project)) = 1

---------------------------------------------------------------------------
\* C38: right after a call of add_to_current_state(p, s) the three readers
\* of the latest snapshot give s's values, whatever the earlier snapshots
\* hold: get_latest_token_usage(p) = s.token_usage, is_agent_completed(p) =
\* s.completed, is_agent_active(p) = s.agent_is_active.  After
\* Browser.screenshot they give 0, false and true, the values of the fresh
\* snapshot it pushes.
C38_LatestSnapshotOnly ==
    [][\A t \in Tasks :
            (Stepped(t) /\ task'[t].call.op \in {"add_to_current_state", "screenshot"}) =>
                LET c == task'[t].call
                    usage == get_latest_token_usage(agent_state', c.project)
                    completed == is_agent_completed(agent_state', c.project)
                    active == is_agent_active(agent_state', c.project)
                IN  IF c.op = "add_to_current_state"
                    THEN /\ usage = Some(c.state.token_usage)
                         /\ completed = Some(c.state.completed)
                         /\ active = Some(c.state.agent_is_active)
                    ELSE /\ usage = Some(0)
                         /\ completed = Some(FALSE)
                         /\ active = Some(TRUE)]_vars

\* A project's usage had been counted on its first snapshot; a screenshot
\* then pushed its snapshot, and the usage reported is 0.
C38_Witness ==
    \E t, u \in Tasks :
        /\ t < u /\ Done(t) /\ Done(u)
        /\ task[t].call.op = "update_token_usage"
        /\ task[u].call.op = "screenshot"
        /\ task[u].call.project = task[t].call.project
        /\ LET log == StateLogOf(task[t].call.project)
           IN  /\ Len(log) = 2
               /\ log[1].token_usage > 0
               /\ get_latest_token_usage(agent_state, task[t].call.project) = Some(0)

---------------------------------------------------------------------------
C39_PathOps == {"get_project_path", "get_zip_path", "ReadCode"}

\* C39: the rows of the two tables are kept per name as it is written: the
\* message log and the state log found under a name hold exactly what was
\* appended under that very name.  The paths are made from the name in
\* lower case with hyphens for spaces: get_project_path and ReadCode give
\* data/projects/<that>, get_zip_path the same with .zip, so two names with
\* the same normalized form get the same directory and the same archive.
C39_KeysVerbatimPathsNormalized ==
    /\ \A n \in ArchiveProjects :
        /\ MessageLogOf(concat(n)) = Appends(concat(n), NumTasks)
        /\ StateLogOf(concat(n)) = C31_StatesIssued(concat(n), NumTasks)
    /\ \A t \in Tasks :
        (Done(t) /\ task[t].call.op \in C39_PathOps) =>
            task[t].ret = Some("data/projects/" \o project_dir_name(task[t].call.project)
                                \o (IF task[t].call.op = "get_zip_path" THEN ".zip" ELSE ""))
    /\ \A t, u \in Tasks :
        (/\ Done(t) /\ Done(u)
         /\ task[t].call.op \in C39_PathOps
         /\ task[u].call.op = task[t].call.op
         /\ project_dir_name(task[t].call.project) = project_dir_name(task[u].call.project)) =>
            task[t].ret = task[u].ret

\* 'My App' and 'my-app' each have a message log of their own, with one
\* message, and the directory of 'My App' is the one named my-app.
C39_Witness ==
    \E t \in Tasks :
        /\ Done(t) /\ task[t].call.op = "get_project_path"
        /\ task[t].call.project = <<"M", "y", " ", "A", "p", "p">>
        /\ task[t].ret = Some("data/projects/my-app")
        /\ get_project_path(<<"m", "y", "-", "a", "p", "p">>) = "data/projects/my-app"
        /\ Len(MessageLogOf("My App")) = 1
        /\ Len(MessageLogOf("my-app")) = 1
        /\ Len(projects) = 2

=============================================================================
